---------------------------- MODULE Spec2Model ----------------------------
(***************************************************************************)
(* Verification model of the eqsat-ai repository: the union-find           *)
(* (ds/src/uf.rs), the relational table (ds/src/table.rs), the e-graph     *)
(* (ds/src/egraph.rs) and the abstract interpreter with its lattice        *)
(* domains (ai/src).  Each subsystem has its own specification over the    *)
(* shared variables; the variables of the other subsystems stay at their   *)
(* initial values.                                                         *)
(***************************************************************************)
EXTENDS Integers, Sequences, FiniteSets, TLC

VARIABLES
    uf,         \* UnionFind.vec: uf[i + 1] is the parent of class id i
    ufOp,       \* the last UnionFind call: "new", "makeset", "find", "merge"
    ufArgs,     \* its arguments
    ufRet,      \* its return value
    ufPrev,     \* UnionFind.vec just before the last call
    tbl,        \* a ds::table::Table: [rows, table, deleted_rows, delta_marker]
    tblOp,      \* the last Table call
    tblArg,     \* its argument (a row or a row id)
    tblRet,     \* its return value
    eg,         \* the EGraph: [tables, uf]
    egOp,       \* the last EGraph call: "insert", "rebuild", "corebuild",
                \* "full_repair", or "uf" for makeset, merge and find
    egNode,     \* the node of the last insert as <<signature, row>>, else << >>
    egRoot,     \* the root the inserted node declared
    egHit,      \* whether the insert found its determinant stored
    egRet,      \* what the insert or the repair call returned
    egHung,     \* whether the last call never returns
    egPrev,     \* <<"full_repair", its return value>> when the call before the
                \* last was a full_repair that returned, else << >>
    aiDom,      \* the lattice of the LatticeDomain: "interval" or "concrete"
    aiFn,       \* the index in Functions of the function being interpreted
    aiStatus,   \* "new", "running", "done" (ai_func returned) or "panic"
    aiAd,       \* the abstract state in hand, an Option<LatticeDomain>
    aiStack,    \* the calls of ai_block and ai_stmt in progress, innermost first
    aiUid,      \* unique_id
    aiFinished, \* the finished sink: unique_id -> returned value
    aiReturns,  \* unique_id -> the return statement that called finish with it
    mgOp,       \* the last merge call: "new", "join" or "widen"
    mgKind,     \* the domain of the operands: "interval" or "concrete" for a
                \* LatticeDomain over that lattice, or "essa" for an ESSADomain
    mgSelf,     \* the receiver of the merge call: var_to_val of a LatticeDomain,
                \* [var_to_val, ad] of an ESSADomain
    mgOther,    \* its argument
    mgOut,      \* its result
    mgGraph,    \* the e-graph the ESSADomain operands share
    mgStaticPhis, \* the static_phis they share: unique_id -> var -> <<static, last>>
    mgLookup,   \* the lookup called on the result of the merge, as
                \* [var, out] with out << >> when it panicked; << >> before it
    latKind,    \* the lattice whose laws are exercised: "interval", "concrete",
                \* "reachability" or "constant"
    latOp,      \* the last lattice call: "new", "join" or "meet"
    latA,       \* three values of the lattice
    latB,
    latC,
    latOut,     \* the results of the last call on them
    domKind,    \* the domain whose operations are exercised: "interval" or
                \* "concrete" for a LatticeDomain, "essa" for an ESSADomain
    domOp,      \* the last call on it: "new", "assign", "lookup", "branch",
                \* "forward_transfer", "join" or "widen"
    domAd,      \* the domain: var_to_val
    domArg,     \* the argument of the last call
    domOut,     \* its result, << >> when the call panicked
    esDom,      \* the inner domain of the ESSADomain interpreted with: "unit"
                \* for (), "interval" for LatticeDomain<ClassId, Interval, Term>
    esFn,       \* the index in LoopFunctions of the function being interpreted
    esPc,       \* where ai_func is, as <<place, k>>: "params", statement k
                \* before the loop ("pre"), "while", "cond", statement k of
                \* the loop's body ("body"), "widen", "done"
    esInit,     \* init of the while loop: the state at its entry
    esHead,     \* ad of the while loop: the state at the loop head
    esAd,       \* the ESSADomain in hand: [var_to_val, ad]
    esExit,     \* exit of the while loop, an Option
    esGraph,    \* graph
    esStaticPhis, \* static_phis
    esNumParams,  \* num_params
    esWidened,  \* the var_to_val of the result of every widen call so far
    xlProg,     \* the Datalog program fixpoint runs on
    xlDb,       \* the Database: [tables, schemas, uf, panicked]
    xlStatus,   \* "new", "running", "done" (fixpoint returned) or "panic"
    xlLast,     \* <<changed by the actions, changed by repair>> of the last
                \* iteration of fixpoint; << >> before the first
    xlRounds    \* the iterations of fixpoint so far

ufVars == <<uf, ufOp, ufArgs, ufRet, ufPrev>>

tblVars == <<tbl, tblOp, tblArg, tblRet>>

egVars == <<eg, egOp, egNode, egRoot, egHit, egRet, egHung, egPrev>>

aiVars == <<aiDom, aiFn, aiStatus, aiAd, aiStack, aiUid, aiFinished, aiReturns>>

mgVars == <<mgOp, mgKind, mgSelf, mgOther, mgOut, mgGraph, mgStaticPhis, mgLookup>>

latVars == <<latKind, latOp, latA, latB, latC, latOut>>

domVars == <<domKind, domOp, domAd, domArg, domOut>>

esVars == <<esDom, esFn, esPc, esInit, esHead, esAd, esExit, esGraph, esStaticPhis,
            esNumParams, esWidened>>

xlVars == <<xlProg, xlDb, xlStatus, xlLast, xlRounds>>

vars == <<uf, ufOp, ufArgs, ufRet, ufPrev, tbl, tblOp, tblArg, tblRet,
          eg, egOp, egNode, egRoot, egHit, egRet, egHung, egPrev,
          aiDom, aiFn, aiStatus, aiAd, aiStack, aiUid, aiFinished, aiReturns,
          mgOp, mgKind, mgSelf, mgOther, mgOut, mgGraph, mgStaticPhis, mgLookup,
          latKind, latOp, latA, latB, latC, latOut,
          domKind, domOp, domAd, domArg, domOut,
          esDom, esFn, esPc, esInit, esHead, esAd, esExit, esGraph, esStaticPhis,
          esNumParams, esWidened,
          xlProg, xlDb, xlStatus, xlLast, xlRounds>>

-----------------------------------------------------------------------------
(* Bounds of the model.                                                    *)

\* The most class ids a union-find of the UnionFind specification holds.
MaxIds == 5

\* The most rows (live and deleted) the row buffer of the Table specification holds.
MaxRows == 3

\* Column values of the Table specification range over 0..MaxVal.
MaxVal == 2

\* The most class ids the e-graph of the EGraph specification mints.
EgMaxIds == 2

\* The most rows (live and deleted) the tables of the e-graph hold together.
EgMaxRows == 3

\* Constant nodes of the EGraph specification carry a value in 0..EgMaxConst.
EgMaxConst == 1

\* unique_id stays at MaxUid once it reached it; no function of the
\* interpreter specification that returns counts that far.
MaxUid == 24

\* The pass counter of a while loop stays at MaxPasses once it reached it.
MaxPasses == 6

\* The operand maps of the merge specification bind variables in 0..MergeMaxVar.
MergeMaxVar == 2

\* The class ids the ESSADomain operands of the merge specification start from.
MergeIds == 2

\* ESSADomain::widen is not called again once the e-graph of the merge
\* specification could grow beyond MergeMaxIds class ids.
MergeMaxIds == 14

-----------------------------------------------------------------------------
(* ds/src/uf.rs : UnionFind                                                *)

Min2(a, b) == IF a <= b THEN a ELSE b

Max2(a, b) == IF a >= b THEN a ELSE b

\* UnionFind::new
UFNew == << >>

\* UnionFind::new_all_not_equals(amount)
NewAllNotEquals(amount) == [i \in 1..amount |-> i - 1]

\* UnionFind::new_all_equals(amount)
NewAllEquals(amount) == [i \in 1..amount |-> 0]

\* UnionFind::num_classes
NumClasses(u) == Len(u)

Ids(u) == 0..(Len(u) - 1)

\* UnionFind::parent
Parent(u, id) == u[id + 1]

\* UnionFind::set_parent
SetParent(u, id, p) == [u EXCEPT ![id + 1] = p]

\* UnionFind::makeset: the new id is the current length
Makeset(u) == [uf |-> Append(u, Len(u)), id |-> Len(u)]

\* UnionFind::find: follows parents, halving the path as it goes
RECURSIVE Find(_, _)
Find(u, id) ==
    IF id = Parent(u, id)
    THEN [uf |-> u, id |-> id]
    ELSE LET u2 == SetParent(u, id, Parent(u, Parent(u, id)))
         IN  Find(u2, Parent(u2, id))

\* A slip in merge: the larger parent is kept and the smaller one is re-pointed.
RECURSIVE MergeLargerWins(_, _, _)
MergeLargerWins(u, x, y) ==
    IF Parent(u, x) = Parent(u, y)
    THEN [uf |-> u, id |-> Parent(u, x)]
    ELSE IF Parent(u, x) < Parent(u, y)
         THEN IF x = Parent(u, x)
              THEN LET u2 == SetParent(u, x, Parent(u, y))
                   IN  [uf |-> u2, id |-> Parent(u2, x)]
              ELSE MergeLargerWins(SetParent(u, x, Parent(u, y)), Parent(u, x), y)
         ELSE IF y = Parent(u, y)
              THEN LET u2 == SetParent(u, y, Parent(u, x))
                   IN  [uf |-> u2, id |-> Parent(u2, x)]
              ELSE MergeLargerWins(SetParent(u, y, Parent(u, x)), x, Parent(u, y))

\* A slip in merge: after re-pointing a non-root the walk does not climb to its
\* old parent (the "x = z" / "y = z" assignments are lost).
RECURSIVE MergeNoClimb(_, _, _)
MergeNoClimb(u, x, y) ==
    IF Parent(u, x) = Parent(u, y)
    THEN [uf |-> u, id |-> Parent(u, x)]
    ELSE IF Parent(u, x) > Parent(u, y)
         THEN LET u2 == SetParent(u, x, Parent(u, y))
              IN  IF x = Parent(u, x)
                  THEN [uf |-> u2, id |-> Parent(u2, x)]
                  ELSE MergeNoClimb(u2, x, y)
         ELSE LET u2 == SetParent(u, y, Parent(u, x))
              IN  IF y = Parent(u, y)
                  THEN [uf |-> u2, id |-> Parent(u2, x)]
                  ELSE MergeNoClimb(u2, x, y)

\* UnionFind::merge: whichever of x, y has the larger parent is re-pointed at the
\* other's parent, then the walk climbs to the old parent; a root ends the loop.
\* Returns parent(x) as it is when the loop ends.
RECURSIVE Merge(_, _, _)
Merge(u, x, y) ==
    IF Parent(u, x) = Parent(u, y)
    THEN [uf |-> u, id |-> Parent(u, x)]
    ELSE IF Parent(u, x) > Parent(u, y)
         THEN IF x = Parent(u, x)
              THEN LET u2 == SetParent(u, x, Parent(u, y))
                   IN  [uf |-> u2, id |-> Parent(u2, x)]
              ELSE Merge(SetParent(u, x, Parent(u, y)), Parent(u, x), y)
         ELSE IF y = Parent(u, y)
              THEN LET u2 == SetParent(u, y, Parent(u, x))
                   IN  [uf |-> u2, id |-> Parent(u2, x)]
              ELSE Merge(SetParent(u, y, Parent(u, x)), x, Parent(u, y))

(* Helpers for stating properties of a union-find: the class of an id is its *)
(* connected component in the parent graph, computed without using find.    *)

\* The ids reachable from the set s along parent edges in either direction.
RECURSIVE Component(_, _)
Component(u, s) ==
    LET t == s \cup {Parent(u, i) : i \in s} \cup {i \in Ids(u) : Parent(u, i) \in s}
    IN  IF t = s THEN s ELSE Component(u, t)

ClassOf(u, x) == Component(u, {x})

SameClass(u, x, y) == y \in ClassOf(u, x)

SetMin(s) == CHOOSE m \in s : \A k \in s : m <= k

\* The union-find of a run that does not use the UnionFind specification.
IdleUF ==
    /\ uf = UFNew
    /\ ufOp = "new"
    /\ ufArgs = << >>
    /\ ufRet = 0
    /\ ufPrev = << >>

-----------------------------------------------------------------------------
(* ds/src/table.rs : Table, Merger, Canonizer, rebuild                     *)

\* Table::new(num_determinant, num_dependent) as the tests call it.
NumDet == 1

NumDep == 1

TableNew == [rows |-> << >>, table |-> {}, deleted_rows |-> {}, delta_marker |-> 0]

\* The hash of a determinant.  Equal determinants hash alike and different ones
\* may collide, which is all the table relies on.
RECURSIVE SumSeq(_)
SumSeq(s) == IF s = << >> THEN 0 ELSE Head(s) + SumSeq(Tail(s))

Hash(determinant) == SumSeq(determinant) % 2

\* Rows::num_rows
NumRows(t) == Len(t.rows)

\* Rows::get_row
GetRow(t, row) == t.rows[row + 1]

\* row[0..num_determinant] and row[num_determinant..]
DetOf(row) == SubSeq(row, 1, NumDet)

DepOf(row) == SubSeq(row, NumDet + 1, NumDet + NumDep)

\* A slip in mark_delta: the marker counts the live rows only.
MarkDeltaLiveOnly(t) ==
    [t EXCEPT !.delta_marker = Len(t.rows) - Cardinality(t.deleted_rows)]

\* Table::mark_delta
MarkDelta(t) == [t EXCEPT !.delta_marker = NumRows(t)]

\* A slip in insert: an occupied entry has its stored row overwritten.
TableInsertOverwrite(t, row) ==
    LET hash == Hash(DetOf(row))
        occupied == {te \in t.table :
                        te.hash = hash /\ DetOf(GetRow(t, te.row)) = DetOf(row)}
    IN  IF occupied # {}
        THEN LET te == CHOOSE te \in occupied : TRUE
             IN  [t |-> [t EXCEPT !.rows[te.row + 1] = row], row |-> row, id |-> te.row]
        ELSE LET id == NumRows(t)
             IN  [t   |-> [t EXCEPT !.rows = Append(@, row),
                                    !.table = @ \cup {[hash |-> hash, row |-> id]}],
                  row |-> row,
                  id  |-> id]

\* A slip in insert: the occupied test compares whole rows, not determinants.
TableInsertWholeRow(t, row) ==
    LET hash == Hash(DetOf(row))
        occupied == {te \in t.table : te.hash = hash /\ GetRow(t, te.row) = row}
    IN  IF occupied # {}
        THEN LET te == CHOOSE te \in occupied : TRUE
             IN  [t |-> t, row |-> GetRow(t, te.row), id |-> te.row]
        ELSE LET id == NumRows(t)
             IN  [t   |-> [t EXCEPT !.rows = Append(@, row),
                                    !.table = @ \cup {[hash |-> hash, row |-> id]}],
                  row |-> row,
                  id  |-> id]

\* Table::insert: the entry whose hash and determinant match is returned as it
\* is stored; otherwise the row is appended and indexed.
TableInsert(t, row) ==
    LET hash == Hash(DetOf(row))
        occupied == {te \in t.table :
                        te.hash = hash /\ DetOf(GetRow(t, te.row)) = DetOf(row)}
    IN  IF occupied # {}
        THEN LET te == CHOOSE te \in occupied : TRUE
             IN  [t |-> t, row |-> GetRow(t, te.row), id |-> te.row]
        ELSE LET id == NumRows(t)
             IN  [t   |-> [t EXCEPT !.rows = Append(@, row),
                                    !.table = @ \cup {[hash |-> hash, row |-> id]}],
                  row |-> row,
                  id  |-> id]

\* Table::delete panics unless the index holds an entry for row_id.
CanDelete(t, row_id) ==
    /\ row_id < NumRows(t)
    /\ \E te \in t.table : te.hash = Hash(DetOf(GetRow(t, row_id))) /\ te.row = row_id

\* Table::delete: the index entry goes, the row id joins the deleted set.
TableDelete(t, row_id) ==
    LET hash == Hash(DetOf(GetRow(t, row_id)))
    IN  [t EXCEPT !.table = {te \in @ : ~(te.hash = hash /\ te.row = row_id)},
                  !.deleted_rows = @ \cup {row_id}]

\* The BTreeSet of deleted row ids in iteration (ascending) order.
RECURSIVE SortedSeq(_)
SortedSeq(s) ==
    IF s = {} THEN << >>
    ELSE LET m == SetMin(s) IN <<m>> \o SortedSeq(s \ {m})

\* A slip in TableRows::next: the cursor moves on by two at a deleted row.
RECURSIVE SkipDeletedStepsTwo(_, _)
SkipDeletedStepsTwo(row, deleted_iter) ==
    IF deleted_iter = << >> \/ Head(deleted_iter) > row
    THEN [row |-> row, deleted_iter |-> deleted_iter]
    ELSE IF Head(deleted_iter) = row
         THEN SkipDeletedStepsTwo(row + 2, Tail(deleted_iter))
         ELSE SkipDeletedStepsTwo(row, Tail(deleted_iter))

\* TableRows::next, first loop: drop the deleted ids up to the cursor, stepping
\* over the cursor's row when it is deleted.
RECURSIVE SkipDeleted(_, _)
SkipDeleted(row, deleted_iter) ==
    IF deleted_iter = << >> \/ Head(deleted_iter) > row
    THEN [row |-> row, deleted_iter |-> deleted_iter]
    ELSE IF Head(deleted_iter) = row
         THEN SkipDeleted(row + 1, Tail(deleted_iter))
         ELSE SkipDeleted(row, Tail(deleted_iter))

\* TableRows::next repeated to exhaustion: the row ids the iterator yields.
RECURSIVE TableRowsFrom(_, _, _)
TableRowsFrom(t, row, deleted_iter) ==
    LET s == SkipDeleted(row, deleted_iter)
    IN  IF s.row >= NumRows(t)
        THEN << >>
        ELSE <<s.row>> \o TableRowsFrom(t, s.row + 1, s.deleted_iter)

\* Table::rows(delta)
TableRows(t, delta) ==
    TableRowsFrom(t, IF delta THEN t.delta_marker ELSE 0, SortedSeq(t.deleted_rows))

\* The merge function of tests::simple_merge: dst[dep] = min(a[dep], b[dep]);
\* dst starts as a copy of the new row.
MinMergeFn(a, b, dst) ==
    [i \in 1..Len(dst) |-> IF i > NumDet THEN Min2(a[i], b[i]) ELSE dst[i]]

\* A slip in Merger::insert: the stored row is kept whatever the merge gives.
MergerInsertKeepStored(t, row) ==
    LET ins == TableInsert(t, row)
    IN  [t |-> ins.t, ret |-> DepOf(ins.row)]

\* Merger::insert with the min merge function.  It returns the dependent
\* columns of the stored row, except after a delete and re-insert, where it
\* returns the whole merged row.
MergerInsert(t, row) ==
    LET would_be_new_id == NumRows(t)
        ins == TableInsert(t, row)
    IN  IF ins.id = would_be_new_id
        THEN [t |-> ins.t, ret |-> DepOf(ins.row)]
        ELSE LET scratch == MinMergeFn(row, ins.row, row)
             IN  IF DepOf(ins.row) = DepOf(scratch)
                 THEN [t |-> ins.t, ret |-> DepOf(ins.row)]
                 ELSE LET again == TableInsert(TableDelete(ins.t, ins.id), scratch)
                      IN  [t |-> again.t, ret |-> again.row]

\* The canon function of tests::simple_canon on the first column, the other
\* columns copied: dst[0] = (x[0] >> 1) << 1.
CanonFn(row) == [i \in 1..Len(row) |-> IF i = 1 THEN (row[i] \div 2) * 2 ELSE row[i]]

\* Canonizer::canon: None (here FALSE) when the canonical form is the row itself.
CanonChanges(row) == CanonFn(row) # row

RECURSIVE DeleteAll(_, _)
DeleteAll(t, to_delete) ==
    IF to_delete = << >> THEN t
    ELSE DeleteAll(TableDelete(t, Head(to_delete)), Tail(to_delete))

RECURSIVE MergerInsertAll(_, _)
MergerInsertAll(t, canonized) ==
    IF canonized = << >> THEN t
    ELSE MergerInsertAll(MergerInsert(t, Head(canonized)).t, Tail(canonized))

\* rebuild: each pass collects the rows the canonizer changes, deletes them and
\* re-inserts their canonical forms through the merger, until a pass changes none.
RECURSIVE Rebuild(_, _)
Rebuild(t, ever_changed) ==
    LET ChangedId(row_id) == CanonChanges(GetRow(t, row_id))
        to_delete == SelectSeq(TableRows(t, FALSE), ChangedId)
        canonized == [i \in 1..Len(to_delete) |-> CanonFn(GetRow(t, to_delete[i]))]
        changed == to_delete # << >>
        t2 == MergerInsertAll(DeleteAll(t, to_delete), canonized)
    IN  IF ~changed
        THEN [t |-> t2, changed |-> ever_changed]
        ELSE Rebuild(t2, TRUE)

\* The canon function of tests::simple_rebuild: uf.find on both columns.  find
\* halves paths, so the union-find is handed on.
UfCanonFn(u, row) ==
    LET f1 == Find(u, row[1])
        f2 == Find(f1.uf, row[2])
    IN  [uf |-> f2.uf, row |-> <<f1.id, f2.id>>]

\* A slip in the merge function of tests::simple_rebuild: the dependents are
\* not merged in the union-find and the stored one is kept.
UfMergerInsertNoMerge(t, u, row) ==
    [t |-> TableInsert(t, row).t, uf |-> u]

\* Merger::insert with the merge function of tests::simple_rebuild:
\* dst[1] = uf.merge(lhs[1], rhs[1]), lhs the new row, rhs the stored one.
UfMergerInsert(t, u, row) ==
    LET would_be_new_id == NumRows(t)
        ins == TableInsert(t, row)
    IN  IF ins.id = would_be_new_id
        THEN [t |-> ins.t, uf |-> u]
        ELSE LET merged == Merge(u, row[2], ins.row[2])
                 scratch == <<row[1], merged.id>>
             IN  IF DepOf(ins.row) = DepOf(scratch)
                 THEN [t |-> ins.t, uf |-> merged.uf]
                 ELSE [t  |-> TableInsert(TableDelete(ins.t, ins.id), scratch).t,
                       uf |-> merged.uf]

\* The first loop of rebuild over table.rows(false): the rows the canonizer
\* changes are collected with their canonical forms.
RECURSIVE UfCanonPass(_, _, _, _, _)
UfCanonPass(t, u, row_ids, to_delete, canonized) ==
    IF row_ids = << >>
    THEN [uf |-> u, to_delete |-> to_delete, canonized |-> canonized]
    ELSE LET c == UfCanonFn(u, GetRow(t, Head(row_ids)))
         IN  IF c.row = GetRow(t, Head(row_ids))
             THEN UfCanonPass(t, c.uf, Tail(row_ids), to_delete, canonized)
             ELSE UfCanonPass(t, c.uf, Tail(row_ids),
                              Append(to_delete, Head(row_ids)), Append(canonized, c.row))

\* The third loop of rebuild: merger.insert of each canonical row.
RECURSIVE UfMergerInsertAll(_, _, _)
UfMergerInsertAll(t, u, canonized) ==
    IF canonized = << >> THEN [t |-> t, uf |-> u]
    ELSE LET r == UfMergerInsert(t, u, Head(canonized))
         IN  UfMergerInsertAll(r.t, r.uf, Tail(canonized))

\* rebuild with the closures of tests::simple_rebuild.
RECURSIVE UfRebuild(_, _, _)
UfRebuild(t, u, ever_changed) ==
    LET pass == UfCanonPass(t, u, TableRows(t, FALSE), << >>, << >>)
        changed == pass.to_delete # << >>
        r == UfMergerInsertAll(DeleteAll(t, pass.to_delete), pass.uf, pass.canonized)
    IN  IF ~changed
        THEN [t |-> r.t, uf |-> r.uf, changed |-> ever_changed]
        ELSE UfRebuild(r.t, r.uf, TRUE)

LiveRows(t) == {r \in 0..(NumRows(t) - 1) : r \notin t.deleted_rows}

-----------------------------------------------------------------------------
(* xlog/src : Database, dumb_product_query, chase, execute_actions, repair, *)
(* fixpoint.  A Slot is <<"Wildcard">>, <<"Variable", sym>> or              *)
(* <<"Concrete", value>>; an Atom is [table, slots] with table counted from *)
(* 1; a Rule is [query, action], the action the atoms of an InsertPattern;  *)
(* a substitution is a function from symbols to values.  A Database is      *)
(* [tables, schemas, uf, panicked]; a table carries its num_determinant.    *)
(* CHOOSE out \in {e : r \in {f}} : TRUE is e with r standing for the value *)
(* of f, computed once.                                                     *)

\* Table::new(num_determinant, num_dependent) as register_table calls it.
XTableNew(num_determinant) ==
    [rows |-> << >>, table |-> {}, deleted_rows |-> {}, delta_marker |-> 0,
     num_determinant |-> num_determinant]

\* row[0..num_determinant] and row[num_determinant..]
XDetOf(t, row) == SubSeq(row, 1, t.num_determinant)

XDepOf(t, row) == SubSeq(row, t.num_determinant + 1, Len(row))

\* The index entries of t for the determinant of row.
XOccupied(t, row) ==
    {te \in t.table : /\ te.hash = Hash(XDetOf(t, row))
                      /\ XDetOf(t, GetRow(t, te.row)) = XDetOf(t, row)}

\* Table::insert
XTableInsert(t, row) ==
    IF XOccupied(t, row) # {}
    THEN LET te == CHOOSE te \in XOccupied(t, row) : TRUE
         IN  [t |-> t, row |-> GetRow(t, te.row), id |-> te.row]
    ELSE [t   |-> [t EXCEPT !.rows = Append(@, row),
                            !.table = @ \cup {[hash |-> Hash(XDetOf(t, row)),
                                               row |-> NumRows(t)]}],
          row |-> row,
          id  |-> NumRows(t)]

\* Table::delete
XTableDelete(t, row_id) ==
    [t EXCEPT !.table = {te \in @ : te.row # row_id},
              !.deleted_rows = @ \cup {row_id}]

\* Table::get: the dependent columns stored for a determinant, as an Option.
XTableGet(t, determinant) ==
    LET found == {te \in t.table : XDetOf(t, GetRow(t, te.row)) = determinant}
    IN  IF found = {} THEN << >>
        ELSE <<XDepOf(t, GetRow(t, (CHOOSE te \in found : TRUE).row))>>

\* default_merger, column by column from idx on: uf.merge on an EClassId
\* column, an assertion of equality on an Int column, a panic otherwise.
RECURSIVE DefaultMerger(_, _, _, _, _, _)
DefaultMerger(schema, u, a, b, dst, idx) ==
    IF idx > Len(schema.dependent) THEN [uf |-> u, dst |-> dst, panicked |-> FALSE]
    ELSE CHOOSE out \in
             {CASE schema.dependent[idx] = "EClassId" ->
                     CHOOSE next \in
                         {DefaultMerger(schema, merged.uf, a, b,
                                        [dst EXCEPT ![col] = merged.id], idx + 1) :
                              merged \in {Merge(u, a[col], b[col])}} : TRUE
                [] schema.dependent[idx] = "Int" ->
                     IF a[col] = b[col]
                     THEN DefaultMerger(schema, u, a, b, [dst EXCEPT ![col] = a[col]], idx + 1)
                     ELSE [uf |-> u, dst |-> dst, panicked |-> TRUE]
                [] OTHER -> [uf |-> u, dst |-> dst, panicked |-> TRUE] :
                  col \in {Len(schema.determinant) + idx}} : TRUE

\* default_canonizer: uf.find on the EClassId columns, the Int columns copied.
RECURSIVE DefaultCanonizer(_, _, _, _, _)
DefaultCanonizer(schema, u, x, dst, idx) ==
    IF idx > Len(schema.determinant) + Len(schema.dependent)
    THEN [uf |-> u, dst |-> dst, panicked |-> FALSE]
    ELSE CHOOSE out \in
             {CASE column = "EClassId" ->
                     CHOOSE next \in
                         {DefaultCanonizer(schema, found.uf, x,
                                           [dst EXCEPT ![idx] = found.id], idx + 1) :
                              found \in {Find(u, x[idx])}} : TRUE
                [] column = "Int" ->
                     DefaultCanonizer(schema, u, x, [dst EXCEPT ![idx] = x[idx]], idx + 1)
                [] OTHER -> [uf |-> u, dst |-> dst, panicked |-> TRUE] :
                  column \in {(schema.determinant \o schema.dependent)[idx]}} : TRUE

\* imp::lattice::Reachability: "Unreachable" or "Reachable".
\* JoinSemilattice::bottom
ReachabilityBottom == "Reachable"

\* MeetSemilattice::top
ReachabilityTop == "Unreachable"

\* JoinSemilattice::join that answers Reachable as soon as one side is.
ReachabilityJoinEither(self, other) ==
    IF self = "Reachable" \/ other = "Reachable" THEN "Reachable" ELSE "Unreachable"

\* JoinSemilattice::join
ReachabilityJoin(self, other) ==
    IF self = "Reachable" /\ other = "Reachable" THEN "Reachable" ELSE "Unreachable"

\* MeetSemilattice::meet
ReachabilityMeet(self, other) ==
    IF self = "Unreachable" /\ other = "Unreachable" THEN "Unreachable" ELSE "Reachable"

\* imp::lattice::Constant: Top, Value(i32) or Bottom.
ConstantTop == [tag |-> "Top", val |-> 0]

ConstantValue(v) == [tag |-> "Value", val |-> v]

ConstantBottom == [tag |-> "Bottom", val |-> 0]

\* JoinSemilattice::join: the match arms in order.
ConstantJoin(self, other) ==
    IF self = ConstantBottom THEN other
    ELSE IF other = ConstantBottom THEN self
    ELSE IF self = other THEN self
    ELSE ConstantTop

\* MeetSemilattice::meet that keeps the receiver when the two values differ.
ConstantMeetKeepSelf(self, other) ==
    IF self = ConstantTop THEN other
    ELSE IF other = ConstantTop THEN self
    ELSE self

\* MeetSemilattice::meet: the match arms in order.
ConstantMeet(self, other) ==
    IF self = ConstantTop THEN other
    ELSE IF other = ConstantTop THEN self
    ELSE IF self = other THEN self
    ELSE ConstantBottom

\* From<Value> for Reachability, as an Option: a value other than 0 and 1
\* is a panic.
ReachabilityFrom(value) ==
    IF value = 0 THEN <<"Unreachable">>
    ELSE IF value = 1 THEN <<"Reachable">>
    ELSE << >>

\* From<Reachability> for Value
ReachabilityInto(value) == IF value = "Unreachable" THEN 0 ELSE 1

\* From<[Value; 2]> for Constant, as an Option: a tag other than 0, 1 and 2
\* is a panic.
ConstantFrom(value) ==
    IF value[1] = 0 THEN <<ConstantValue(value[2])>>
    ELSE IF value[1] = 1 THEN <<ConstantTop>>
    ELSE IF value[1] = 2 THEN <<ConstantBottom>>
    ELSE << >>

\* From<Constant> for [Value; 2]
ConstantInto(value) ==
    IF value.tag = "Value" THEN <<0, value.val>>
    ELSE IF value.tag = "Top" THEN <<1, 0>>
    ELSE <<2, 0>>

\* The merger closures abstract_interpret registers with the tables Reach
\* and Const; dst holds the inserted row when the closure is called.
CustomMerger(schema, u, a, b, dst) ==
    IF schema.custom = "Reach"
    THEN LET lhs == ReachabilityFrom(a[2])
             rhs == ReachabilityFrom(b[2])
         IN  IF lhs = << >> \/ rhs = << >> THEN [uf |-> u, dst |-> dst, panicked |-> TRUE]
             ELSE [uf  |-> u,
                   dst |-> [dst EXCEPT ![2] = ReachabilityInto(ReachabilityMeet(lhs[1], rhs[1]))],
                   panicked |-> FALSE]
    ELSE LET lhs == ConstantFrom(SubSeq(a, 3, 4))
             rhs == ConstantFrom(SubSeq(b, 3, 4))
         IN  IF lhs = << >> \/ rhs = << >> THEN [uf |-> u, dst |-> dst, panicked |-> TRUE]
             ELSE LET arr == ConstantInto(ConstantMeet(lhs[1], rhs[1]))
                  IN  [uf |-> u, dst |-> [dst EXCEPT ![3] = arr[1], ![4] = arr[2]],
                       panicked |-> FALSE]

\* mergers[id] and canonizers[id] of a Database: the closures of
\* register_custom_table for a schema registered with it, those of
\* register_table otherwise.  The canonizer closures of abstract_interpret
\* copy the row.
MergerOf(schema, u, a, b, dst) ==
    IF "custom" \in DOMAIN schema THEN CustomMerger(schema, u, a, b, dst)
    ELSE DefaultMerger(schema, u, a, b, dst, 1)

CanonizerOf(schema, u, x, dst) ==
    IF "custom" \in DOMAIN schema THEN [uf |-> u, dst |-> x, panicked |-> FALSE]
    ELSE DefaultCanonizer(schema, u, x, dst, 1)

\* Merger::insert; changed tells whether the table was written.
XMergerInsert(t, schema, u, row) ==
    CHOOSE out \in
        {IF ins.id = NumRows(t)
         THEN [t |-> ins.t, uf |-> u, changed |-> TRUE, panicked |-> FALSE]
         ELSE CHOOSE hit \in
                  {IF merged.panicked
                   THEN [t |-> ins.t, uf |-> merged.uf, changed |-> FALSE, panicked |-> TRUE]
                   ELSE IF XDepOf(t, ins.row) = XDepOf(t, merged.dst)
                   THEN [t |-> ins.t, uf |-> merged.uf, changed |-> FALSE, panicked |-> FALSE]
                   ELSE [t  |-> XTableInsert(XTableDelete(ins.t, ins.id), merged.dst).t,
                         uf |-> merged.uf, changed |-> TRUE, panicked |-> FALSE] :
                       merged \in {MergerOf(schema, u, row, ins.row, row)}} : TRUE :
             ins \in {XTableInsert(t, row)}} : TRUE

\* The first loop of rebuild over table.rows(false).
RECURSIVE XCanonPass(_, _, _, _, _, _)
XCanonPass(t, schema, u, row_ids, to_delete, canonized) ==
    IF row_ids = << >>
    THEN [uf |-> u, to_delete |-> to_delete, canonized |-> canonized, panicked |-> FALSE]
    ELSE CHOOSE out \in
             {IF c.panicked
              THEN [uf |-> c.uf, to_delete |-> to_delete, canonized |-> canonized,
                    panicked |-> TRUE]
              ELSE IF c.dst = row
              THEN XCanonPass(t, schema, c.uf, Tail(row_ids), to_delete, canonized)
              ELSE XCanonPass(t, schema, c.uf, Tail(row_ids),
                              Append(to_delete, Head(row_ids)), Append(canonized, c.dst)) :
                  row \in {GetRow(t, Head(row_ids))},
                  c \in {CanonizerOf(schema, u, GetRow(t, Head(row_ids)),
                                     GetRow(t, Head(row_ids)))}} : TRUE

RECURSIVE XDeleteAll(_, _)
XDeleteAll(t, to_delete) ==
    IF to_delete = << >> THEN t
    ELSE XDeleteAll(XTableDelete(t, Head(to_delete)), Tail(to_delete))

\* The third loop of rebuild: merger.insert of each canonical row.
RECURSIVE XMergerInsertAll(_, _, _, _)
XMergerInsertAll(t, schema, u, canonized) ==
    IF canonized = << >> THEN [t |-> t, uf |-> u, panicked |-> FALSE]
    ELSE CHOOSE out \in
             {IF r.panicked THEN [t |-> r.t, uf |-> r.uf, panicked |-> TRUE]
              ELSE XMergerInsertAll(r.t, schema, r.uf, Tail(canonized)) :
                  r \in {XMergerInsert(t, schema, u, Head(canonized))}} : TRUE

\* rebuild(table, merger, canonizer)
RECURSIVE XRebuild(_, _, _, _)
XRebuild(t, schema, u, ever_changed) ==
    CHOOSE out \in
        {IF pass.panicked
         THEN [t |-> t, uf |-> pass.uf, changed |-> ever_changed, panicked |-> TRUE]
         ELSE CHOOSE done \in
                  {IF r.panicked
                   THEN [t |-> r.t, uf |-> r.uf, changed |-> TRUE, panicked |-> TRUE]
                   ELSE IF pass.to_delete = << >>
                   THEN [t |-> r.t, uf |-> r.uf, changed |-> ever_changed, panicked |-> FALSE]
                   ELSE XRebuild(r.t, schema, r.uf, TRUE) :
                       r \in {XMergerInsertAll(XDeleteAll(t, pass.to_delete), schema,
                                               pass.uf, pass.canonized)}} : TRUE :
             pass \in {XCanonPass(t, schema, u, TableRows(t, FALSE), << >>, << >>)}} : TRUE

\* Database::new and register_table, once per schema.
DatabaseNew(schemas) ==
    [tables   |-> [i \in 1..Len(schemas) |-> XTableNew(Len(schemas[i].determinant))],
     schemas  |-> schemas,
     uf       |-> UFNew,
     panicked |-> FALSE]

\* The loop of Database::repair over the tables, from table id on.
RECURSIVE RepairPass(_, _, _)
RepairPass(db, id, changed) ==
    IF id > Len(db.tables) \/ db.panicked THEN [db |-> db, changed |-> changed]
    ELSE CHOOSE out \in
             {RepairPass([db EXCEPT !.tables[id] = r.t, !.uf = r.uf,
                                    !.panicked = r.panicked],
                         id + 1, r.changed \/ changed) :
                  r \in {XRebuild(db.tables[id], db.schemas[id], db.uf, FALSE)}} : TRUE

\* Database::repair
RECURSIVE Repair(_, _)
Repair(db, ever_changed) ==
    CHOOSE out \in
        {IF pass.db.panicked \/ ~pass.changed
         THEN [db |-> pass.db, changed |-> ever_changed]
         ELSE Repair(pass.db, TRUE) :
             pass \in {RepairPass(db, 1, FALSE)}} : TRUE

\* Substitution is BTreeMap<Symbol, Value>: insert.
SubstInsert(subst, sym, value) ==
    [s \in DOMAIN subst \cup {sym} |-> IF s = sym THEN value ELSE subst[s]]

\* A slip in dumb_product_query: a variable that is already bound matches
\* any value.
RECURSIVE MatchRowNoJoin(_, _, _, _)
MatchRowNoJoin(new_match, row, slots, idx) ==
    IF idx > Len(slots) THEN <<new_match>>
    ELSE CASE slots[idx][1] = "Wildcard" -> MatchRowNoJoin(new_match, row, slots, idx + 1)
           [] slots[idx][1] = "Variable" ->
                IF slots[idx][2] \in DOMAIN new_match
                THEN MatchRowNoJoin(new_match, row, slots, idx + 1)
                ELSE MatchRowNoJoin(SubstInsert(new_match, slots[idx][2], row[idx]),
                                    row, slots, idx + 1)
           [] slots[idx][1] = "Concrete" ->
                IF slots[idx][2] # row[idx] THEN << >>
                ELSE MatchRowNoJoin(new_match, row, slots, idx + 1)

\* The loop of dumb_product_query over the columns of a row: the match
\* extended by the row, as an Option.
RECURSIVE MatchRow(_, _, _, _)
MatchRow(new_match, row, slots, idx) ==
    IF idx > Len(slots) THEN <<new_match>>
    ELSE CASE slots[idx][1] = "Wildcard" -> MatchRow(new_match, row, slots, idx + 1)
           [] slots[idx][1] = "Variable" ->
                IF slots[idx][2] \in DOMAIN new_match
                THEN IF new_match[slots[idx][2]] # row[idx] THEN << >>
                     ELSE MatchRow(new_match, row, slots, idx + 1)
                ELSE MatchRow(SubstInsert(new_match, slots[idx][2], row[idx]),
                              row, slots, idx + 1)
           [] slots[idx][1] = "Concrete" ->
                IF slots[idx][2] # row[idx] THEN << >>
                ELSE MatchRow(new_match, row, slots, idx + 1)

\* The matches of one submatch against the rows of the atom's table.
RECURSIVE MatchRows(_, _, _, _)
MatchRows(m, t, row_ids, slots) ==
    IF row_ids = << >> THEN << >>
    ELSE MatchRow(m, GetRow(t, Head(row_ids)), slots, 1)
         \o MatchRows(m, t, Tail(row_ids), slots)

RECURSIVE MatchAll(_, _, _, _)
MatchAll(submatches, t, row_ids, slots) ==
    IF submatches = << >> THEN << >>
    ELSE MatchRows(Head(submatches), t, row_ids, slots)
         \o MatchAll(Tail(submatches), t, row_ids, slots)

\* A slip in dumb_product_query: every row of the buffer is matched, the
\* deleted ones too.
RECURSIVE DumbProductQueryAllRows(_, _)
DumbProductQueryAllRows(db, atoms) ==
    IF atoms = << >> THEN << << >> >>
    ELSE MatchAll(DumbProductQueryAllRows(db, SubSeq(atoms, 1, Len(atoms) - 1)),
                  db.tables[atoms[Len(atoms)].table],
                  [i \in 1..NumRows(db.tables[atoms[Len(atoms)].table]) |-> i - 1],
                  atoms[Len(atoms)].slots)

\* dumb_product_query: the last atom is matched against the matches of the
\* atoms before it.
RECURSIVE DumbProductQuery(_, _)
DumbProductQuery(db, atoms) ==
    IF atoms = << >> THEN << << >> >>
    ELSE LET atom == atoms[Len(atoms)]
             t == db.tables[atom.table]
         IN  MatchAll(DumbProductQuery(db, SubSeq(atoms, 1, Len(atoms) - 1)),
                      t, TableRows(t, FALSE), atom.slots)

\* Atom::determinant_variables and Atom::dependent_variables as sequences of
\* <<idx, var>>, idx counted from 1 within the determinant or the dependent.
SlotVariables(slots) ==
    SelectSeq([i \in 1..Len(slots) |-> <<i, slots[i]>>], LAMBDA p : p[2][1] = "Variable")

DeterminantVariables(db, atom) ==
    SlotVariables(SubSeq(atom.slots, 1, db.tables[atom.table].num_determinant))

DependentVariables(db, atom) ==
    SlotVariables(SubSeq(atom.slots, db.tables[atom.table].num_determinant + 1,
                         Len(atom.slots)))

\* The row an atom stands for under a substitution; None when a slot is a
\* wildcard or an unbound variable (a panic).
SlotsWithSubst(slots, subst) ==
    IF \E i \in 1..Len(slots) :
           \/ slots[i][1] = "Wildcard"
           \/ slots[i][1] = "Variable" /\ slots[i][2] \notin DOMAIN subst
    THEN << >>
    ELSE <<[i \in 1..Len(slots) |->
              IF slots[i][1] = "Variable" THEN subst[slots[i][2]] ELSE slots[i][2]]>>

\* Database::get_with_subst: [panicked, dep] with dep an Option.
GetWithSubst(db, atom, subst) ==
    LET t == db.tables[atom.table]
        determinant == SlotsWithSubst(SubSeq(atom.slots, 1, t.num_determinant), subst)
    IN  IF determinant = << >> THEN [panicked |-> TRUE, dep |-> << >>]
        ELSE [panicked |-> FALSE, dep |-> XTableGet(t, determinant[1])]

\* Database::insert_atom_with_subst
InsertAtomWithSubst(db, atom, subst) ==
    CHOOSE out \in
        {IF scratch = << >> THEN [db |-> [db EXCEPT !.panicked = TRUE], changed |-> FALSE]
         ELSE CHOOSE done \in
                  {[db |-> [db EXCEPT !.tables[atom.table] = r.t, !.uf = r.uf,
                                      !.panicked = r.panicked],
                    changed |-> r.changed] :
                       r \in {XMergerInsert(db.tables[atom.table], db.schemas[atom.table],
                                            db.uf, scratch[1])}} : TRUE :
             scratch \in {SlotsWithSubst(atom.slots, subst)}} : TRUE

\* The inner loop of chase over the dependent variables of an atom whose
\* determinant is stored with the dependent columns in_dependent.
RECURSIVE ChaseBind(_, _, _, _)
ChaseBind(subst, dep_vars, in_dependent, changed) ==
    IF dep_vars = << >> THEN [subst |-> subst, changed |-> changed]
    ELSE LET idx == Head(dep_vars)[1]
             var == Head(dep_vars)[2][2]
         IN  IF var \in DOMAIN subst
             THEN ChaseBind(subst, Tail(dep_vars), in_dependent, changed)
             ELSE ChaseBind(SubstInsert(subst, var, in_dependent[idx]), Tail(dep_vars),
                            in_dependent, TRUE)

\* One pass of the first loop of chase over the atoms.
RECURSIVE ChasePass(_, _, _, _)
ChasePass(db, subst, atoms, changed) ==
    IF atoms = << >> THEN [subst |-> subst, changed |-> changed, panicked |-> FALSE]
    ELSE IF \E i \in 1..Len(DeterminantVariables(db, Head(atoms))) :
                DeterminantVariables(db, Head(atoms))[i][2][2] \notin DOMAIN subst
    THEN ChasePass(db, subst, Tail(atoms), changed)
    ELSE CHOOSE out \in
             {IF got.panicked
              THEN [subst |-> subst, changed |-> changed, panicked |-> TRUE]
              ELSE IF got.dep = << >> THEN ChasePass(db, subst, Tail(atoms), changed)
              ELSE CHOOSE next \in
                       {ChasePass(db, b.subst, Tail(atoms), b.changed) :
                            b \in {ChaseBind(subst, DependentVariables(db, Head(atoms)),
                                             got.dep[1], changed)}} : TRUE :
                  got \in {GetWithSubst(db, Head(atoms), subst)}} : TRUE

\* The first loop of chase, until a pass binds nothing.
RECURSIVE ChaseLoop(_, _, _)
ChaseLoop(db, subst, atoms) ==
    CHOOSE out \in
        {IF pass.panicked \/ ~pass.changed THEN pass
         ELSE ChaseLoop(db, pass.subst, atoms) :
             pass \in {ChasePass(db, subst, atoms, FALSE)}} : TRUE

\* The second loop of chase over the dependent variables of one atom: a fresh
\* class id for each one still unbound, on an EClassId column.
RECURSIVE ChaseMint(_, _, _, _)
ChaseMint(db, subst, dep_vars, schema) ==
    IF dep_vars = << >> \/ db.panicked THEN [db |-> db, subst |-> subst]
    ELSE LET idx == Head(dep_vars)[1]
             var == Head(dep_vars)[2][2]
             made == Makeset(db.uf)
         IN  IF var \in DOMAIN subst THEN ChaseMint(db, subst, Tail(dep_vars), schema)
             ELSE IF schema.dependent[idx] # "EClassId"
             THEN [db |-> [db EXCEPT !.panicked = TRUE], subst |-> subst]
             ELSE ChaseMint([db EXCEPT !.uf = made.uf], SubstInsert(subst, var, made.id),
                            Tail(dep_vars), schema)

RECURSIVE ChaseMintAll(_, _, _)
ChaseMintAll(db, subst, atoms) ==
    IF atoms = << >> \/ db.panicked THEN [db |-> db, subst |-> subst]
    ELSE CHOOSE out \in
             {ChaseMintAll(r.db, r.subst, Tail(atoms)) :
                  r \in {ChaseMint(db, subst, DependentVariables(db, Head(atoms)),
                                   db.schemas[Head(atoms).table])}} : TRUE

\* A slip in chase: the stored rows are not looked at, every unbound
\* dependent variable gets a fresh class id.
ChaseNoLookup(db, subst, atoms) == ChaseMintAll(db, subst, atoms)

\* chase
Chase(db, subst, atoms) ==
    CHOOSE out \in
        {IF bound.panicked
         THEN [db |-> [db EXCEPT !.panicked = TRUE], subst |-> bound.subst]
         ELSE ChaseMintAll(db, bound.subst, atoms) :
             bound \in {ChaseLoop(db, subst, atoms)}} : TRUE

\* A slip in execute_actions: the flag of the last insert replaces the flag
\* so far.
RECURSIVE InsertAtomsLastFlag(_, _, _, _)
InsertAtomsLastFlag(db, atoms, subst, changed) ==
    IF atoms = << >> \/ db.panicked THEN [db |-> db, changed |-> changed]
    ELSE CHOOSE out \in
             {InsertAtomsLastFlag(r.db, Tail(atoms), subst, r.changed) :
                  r \in {InsertAtomWithSubst(db, Head(atoms), subst)}} : TRUE

\* execute_actions, the loop over the atoms of an InsertPattern.
RECURSIVE InsertAtoms(_, _, _, _)
InsertAtoms(db, atoms, subst, changed) ==
    IF atoms = << >> \/ db.panicked THEN [db |-> db, changed |-> changed]
    ELSE CHOOSE out \in
             {InsertAtoms(r.db, Tail(atoms), subst, r.changed \/ changed) :
                  r \in {InsertAtomWithSubst(db, Head(atoms), subst)}} : TRUE

\* execute_actions, the loop over the substitutions of one action.
RECURSIVE ExecuteAction(_, _, _, _)
ExecuteAction(db, atoms, substs, changed) ==
    IF substs = << >> \/ db.panicked THEN [db |-> db, changed |-> changed]
    ELSE CHOOSE out \in
             {CHOOSE next \in
                  {ExecuteAction(r.db, atoms, Tail(substs), r.changed) :
                       r \in {InsertAtoms(chased.db, atoms, chased.subst, changed)}} : TRUE :
                  chased \in {Chase(db, Head(substs), atoms)}} : TRUE

\* execute_actions; action_substs is a sequence of <<action, substs>>.
RECURSIVE ExecuteActions(_, _, _)
ExecuteActions(db, action_substs, changed) ==
    IF action_substs = << >> \/ db.panicked THEN [db |-> db, changed |-> changed]
    ELSE CHOOSE out \in
             {ExecuteActions(r.db, Tail(action_substs), r.changed) :
                  r \in {ExecuteAction(db, Head(action_substs)[1], Head(action_substs)[2],
                                       changed)}} : TRUE

\* One iteration of the loop of fixpoint: every query is matched, then the
\* actions run, then repair.
FixpointRound(db, program) ==
    CHOOSE out \in
        {IF acted.db.panicked
         THEN [db |-> acted.db, acted |-> acted.changed, repaired |-> FALSE]
         ELSE CHOOSE done \in
                  {[db |-> repaired.db, acted |-> acted.changed,
                    repaired |-> repaired.changed] :
                       repaired \in {Repair(acted.db, FALSE)}} : TRUE :
             acted \in {ExecuteActions(db,
                                       [i \in 1..Len(program) |->
                                           <<program[i].action,
                                             DumbProductQuery(db, program[i].query)>>],
                                       FALSE)}} : TRUE

\* The database of a run that does not use the Xlog specification.
IdleXlog ==
    /\ xlProg = << >>
    /\ xlDb = DatabaseNew(<< >>)
    /\ xlStatus = "idle"
    /\ xlLast = << >>
    /\ xlRounds = 0

-----------------------------------------------------------------------------
(* ds/src/egraph.rs : Signature, Table<DET, DEP>, canonicalize, EGraph      *)

\* The signatures of tests::simple_egraph: Constant(u32, ClassId) and
\* Add(ClassId, ClassId, ClassId).
SigConstant ==
    [class_id_mask |-> <<0, 1>>, num_det_cols |-> 1, num_dep_cols |-> 1, symbol_id |-> 0]

SigAdd ==
    [class_id_mask |-> <<1, 1, 1>>, num_det_cols |-> 2, num_dep_cols |-> 1, symbol_id |-> 1]

Signatures == {SigConstant, SigAdd}

\* The determinant and dependent parts of an encoded row.
EDet(sig, row) == SubSeq(row, 1, sig.num_det_cols)

EDep(sig, row) == SubSeq(row, sig.num_det_cols + 1, sig.num_det_cols + sig.num_dep_cols)

\* Table::new: rows holds the buffer up to num_rows, det_map the buffer indices
\* of the rows the map references (it is keyed by their determinants).
ETableNew == [rows |-> << >>, det_map |-> {}, deleted_rows |-> << >>]

\* A slip in Table::insert: the lookup compares the whole row, so a determinant
\* stored with another dependent is stored again.
ETableInsertWholeRow(tb, sig, row) ==
    LET hit == {i \in tb.det_map : tb.rows[i + 1] = row}
    IN  IF hit # {}
        THEN [tb |-> tb, found |-> TRUE,
              dep |-> EDep(sig, tb.rows[(CHOOSE i \in hit : TRUE) + 1])]
        ELSE [tb |-> [tb EXCEPT !.rows = Append(@, row),
                                !.det_map = @ \cup {Len(tb.rows)}],
              found |-> FALSE,
              dep |-> EDep(sig, row)]

\* Table::insert: Some(stored dependent) when the determinant is in det_map,
\* else the row is written at num_rows and mapped, and None is returned.
ETableInsert(tb, sig, row) ==
    LET hit == {i \in tb.det_map : EDet(sig, tb.rows[i + 1]) = EDet(sig, row)}
    IN  IF hit # {}
        THEN [tb |-> tb, found |-> TRUE,
              dep |-> EDep(sig, tb.rows[(CHOOSE i \in hit : TRUE) + 1])]
        ELSE [tb |-> [tb EXCEPT !.rows = Append(@, row),
                                !.det_map = @ \cup {Len(tb.rows)}],
              found |-> FALSE,
              dep |-> EDep(sig, row)]

\* TableIterator::next repeated to exhaustion: the row indices it yields.
RECURSIVE ETableRowsFrom(_, _, _)
ETableRowsFrom(tb, row_idx, deleted_rows_idx) ==
    IF row_idx >= Len(tb.rows)
    THEN << >>
    ELSE IF /\ deleted_rows_idx < Len(tb.deleted_rows)
            /\ row_idx = tb.deleted_rows[deleted_rows_idx + 1]
         THEN ETableRowsFrom(tb, row_idx + 1, deleted_rows_idx + 1)
         ELSE <<row_idx>> \o ETableRowsFrom(tb, row_idx + 1, deleted_rows_idx)

\* Table::rows
ETableRows(tb) == ETableRowsFrom(tb, 0, 0)

\* The merge loop of Table::delete_rows over two ascending lists.
RECURSIVE MergeDeleted(_, _)
MergeDeleted(old, new) ==
    IF old = << >> THEN new
    ELSE IF new = << >> THEN old
    ELSE IF Head(old) < Head(new) THEN <<Head(old)>> \o MergeDeleted(Tail(old), new)
    ELSE IF Head(new) < Head(old) THEN <<Head(new)>> \o MergeDeleted(old, Tail(new))
    ELSE MergeDeleted(old, Tail(new))

\* Table::delete_rows: the determinants of the rows leave det_map and the row
\* indices are merged into deleted_rows.
ETableDeleteRows(tb, sig, rows) ==
    LET gone == {EDet(sig, tb.rows[rows[k] + 1]) : k \in 1..Len(rows)}
    IN  [tb EXCEPT !.det_map = {i \in @ : EDet(sig, tb.rows[i + 1]) \notin gone},
                   !.deleted_rows = MergeDeleted(@, rows)]

\* A slip in canonicalize: only the determinant columns are canonicalized.
RECURSIVE CanonicalizeDetOnly(_, _, _, _)
CanonicalizeDetOnly(u, row, sig, col) ==
    IF col > sig.num_det_cols
    THEN [uf |-> u, row |-> row, changed |-> FALSE]
    ELSE IF sig.class_id_mask[col] = 0
         THEN CanonicalizeDetOnly(u, row, sig, col + 1)
         ELSE LET f == Find(u, row[col])
                  rest == CanonicalizeDetOnly(f.uf, [row EXCEPT ![col] = f.id], sig, col + 1)
              IN  [rest EXCEPT !.changed = @ \/ row[col] # f.id]

\* canonicalize: every column the mask marks is replaced by uf.find of it, in
\* column order; reports whether any column changed.
RECURSIVE CanonicalizeFrom(_, _, _, _)
CanonicalizeFrom(u, row, sig, col) ==
    IF col > Len(row)
    THEN [uf |-> u, row |-> row, changed |-> FALSE]
    ELSE IF sig.class_id_mask[col] = 0
         THEN CanonicalizeFrom(u, row, sig, col + 1)
         ELSE LET f == Find(u, row[col])
                  rest == CanonicalizeFrom(f.uf, [row EXCEPT ![col] = f.id], sig, col + 1)
              IN  [rest EXCEPT !.changed = @ \/ row[col] # f.id]

Canonicalize(u, row, sig) == CanonicalizeFrom(u, row, sig, 1)

\* EGraph::new
EGraphNew == [tables |-> << >>, uf |-> UFNew]

\* EGraph::insert_or_merge: a determinant already stored merges the declared root
\* with the stored root and returns the stored root; else the declared root.
InsertOrMerge(u, tb, sig, row) ==
    LET old_root == EDep(sig, row)[1]
        Inserted(ins) ==
            IF ins.found
            THEN [uf |-> Merge(u, old_root, ins.dep[1]).uf, tb |-> ins.tb,
                  id |-> ins.dep[1], found |-> TRUE]
            ELSE [uf |-> u, tb |-> ins.tb, id |-> old_root, found |-> FALSE]
    IN  Inserted(ETableInsert(tb, sig, row))

\* self.tables.entry(sig).or_insert_with(..)
TableOf(e, sig) == IF sig \in DOMAIN e.tables THEN e.tables[sig] ELSE ETableNew

WithTable(tables, sig, tb) ==
    [s \in DOMAIN tables \cup {sig} |-> IF s = sig THEN tb ELSE tables[s]]

\* A slip in EGraph::insert: the row is looked up as encoded, without canonicalize.
EGraphInsertNoCanon(e, sig, row) ==
    LET Stored(r) ==
            [e |-> [tables |-> WithTable(e.tables, sig, r.tb), uf |-> r.uf],
             id |-> r.id, found |-> r.found]
    IN  Stored(InsertOrMerge(e.uf, TableOf(e, sig), sig, row))

\* EGraph::insert of the node encode_to_row writes as row under signature sig.
EGraphInsert(e, sig, row) ==
    LET Stored(r) ==
            [e |-> [tables |-> WithTable(e.tables, sig, r.tb), uf |-> r.uf],
             id |-> r.id, found |-> r.found]
        Canonical(c) == Stored(InsertOrMerge(c.uf, TableOf(e, sig), sig, c.row))
    IN  Canonical(Canonicalize(e.uf, row, sig))

\* rebuild, first inner loop: the rows of one table that canonicalize to a
\* different tuple, with their canonical forms.
RECURSIVE CollectChanged(_, _, _, _)
CollectChanged(u, tb, sig, ids) ==
    LET Collected(c, rest) ==
            IF c.changed
            THEN [rest EXCEPT !.deleted_rows = <<Head(ids)>> \o @,
                              !.canonicalized_rows = <<c.row>> \o @]
            ELSE rest
        Canonical(c) == Collected(c, CollectChanged(c.uf, tb, sig, Tail(ids)))
    IN  IF ids = << >>
        THEN [uf |-> u, deleted_rows |-> << >>, canonicalized_rows |-> << >>]
        ELSE Canonical(Canonicalize(u, tb.rows[Head(ids) + 1], sig))

\* rebuild, second inner loop: insert_or_merge of every canonical form.
RECURSIVE ReinsertAll(_, _, _, _)
ReinsertAll(u, tb, sig, canonicalized_rows) ==
    LET Next(r) == ReinsertAll(r.uf, r.tb, sig, Tail(canonicalized_rows))
    IN  IF canonicalized_rows = << >>
        THEN [uf |-> u, tb |-> tb]
        ELSE Next(InsertOrMerge(u, tb, sig, Head(canonicalized_rows)))

\* rebuild, one pass of the outer loop over the tables in iteration order.
RECURSIVE RebuildPass(_, _)
RebuildPass(e, order) ==
    LET sig == Head(order)
        Rest(changed, rest) == [rest EXCEPT !.changed = @ \/ changed]
        Reinserted(changed, r) ==
            Rest(changed,
                 RebuildPass([tables |-> WithTable(e.tables, sig, r.tb), uf |-> r.uf],
                             Tail(order)))
        Collected(tb, c) ==
            Reinserted(c.deleted_rows # << >>,
                       ReinsertAll(c.uf, ETableDeleteRows(tb, sig, c.deleted_rows), sig,
                                   c.canonicalized_rows))
        Visit(tb) == Collected(tb, CollectChanged(e.uf, tb, sig, ETableRows(tb)))
    IN  IF order = << >>
        THEN [e |-> e, changed |-> FALSE]
        ELSE Visit(e.tables[sig])

\* EGraph::rebuild: passes until one changes nothing.
RECURSIVE EGraphRebuildLoop(_, _, _)
EGraphRebuildLoop(e, order, ever_changed) ==
    LET Passed(p) ==
            IF ~p.changed
            THEN [e |-> p.e, changed |-> ever_changed]
            ELSE EGraphRebuildLoop(p.e, order, TRUE)
    IN  Passed(RebuildPass(e, order))

EGraphRebuild(e, order) == EGraphRebuildLoop(e, order, FALSE)

\* UnionFind::set_all_not_equals: every id becomes its own parent again.
SetAllNotEquals(u) == NewAllNotEquals(Len(u))

\* corebuild, first inner loop: every row of a table canonicalized through last_uf.
RECURSIVE CanonAll(_, _, _, _)
CanonAll(last_uf, tb, sig, ids) ==
    LET Rest(c, rest) == [rest EXCEPT !.rows = <<c.row>> \o @]
        Canonical(c) == Rest(c, CanonAll(c.uf, tb, sig, Tail(ids)))
    IN  IF ids = << >>
        THEN [uf |-> last_uf, rows |-> << >>]
        ELSE Canonical(Canonicalize(last_uf, tb.rows[Head(ids) + 1], sig))

\* The keys of enode_to_eclasses in the order the rows first produce them.
RECURSIVE FirstOccurrences(_)
FirstOccurrences(dets) ==
    IF dets = << >> THEN << >>
    ELSE LET h == Head(dets)
             NotH(d) == d # h
         IN  <<h>> \o FirstOccurrences(SelectSeq(Tail(dets), NotH))

Reverse(s) == [i \in 1..Len(s) |-> s[Len(s) + 1 - i]]

\* for tail in &equiv_classes[1..] { next_uf.merge(head, *tail); }
RECURSIVE MergeTails(_, _, _)
MergeTails(next_uf, head, tails) ==
    IF tails = << >> THEN next_uf
    ELSE MergeTails(Merge(next_uf, head, Head(tails)).uf, head, Tail(tails))

\* corebuild, third inner loop over enode_to_eclasses.values(), keys in the given order.
RECURSIVE MergeGroups(_, _, _, _)
MergeGroups(next_uf, keys, dets, before_roots) ==
    LET InGroup(i) == dets[i] = Head(keys)
        Values(members) == [k \in 1..Len(members) |-> before_roots[members[k]]]
        Group(equiv_classes) ==
            MergeGroups(MergeTails(next_uf, Head(equiv_classes), Tail(equiv_classes)),
                        Tail(keys), dets, before_roots)
    IN  IF keys = << >> THEN next_uf
        ELSE Group(Values(SelectSeq([i \in 1..Len(dets) |-> i], InGroup)))

\* corebuild, the body of the outer loop: for every table in iteration order, rows
\* whose determinants coincide under last_uf have their roots merged in next_uf.
\* rev chooses between two iteration orders of the enode_to_eclasses hash map.
RECURSIVE CorebuildTables(_, _, _, _, _)
CorebuildTables(e, last_uf, next_uf, order, rev) ==
    LET sig == Head(order)
        Keys(firsts) == IF rev THEN Reverse(firsts) ELSE firsts
        Grouped(last, dets, before_roots) ==
            CorebuildTables(e, last,
                            MergeGroups(next_uf, Keys(FirstOccurrences(dets)), dets,
                                        before_roots),
                            Tail(order), rev)
        Canonical(tb, ids, c) ==
            Grouped(c.uf, [i \in 1..Len(ids) |-> EDet(sig, c.rows[i])],
                    [i \in 1..Len(ids) |-> EDep(sig, tb.rows[ids[i] + 1])[1]])
        Rows(tb, ids) == Canonical(tb, ids, CanonAll(last_uf, tb, sig, ids))
        Visit(tb) == Rows(tb, ETableRows(tb))
    IN  IF order = << >>
        THEN [last_uf |-> last_uf, next_uf |-> next_uf]
        ELSE Visit(e.tables[sig])

\* corebuild, the outer loop.  It ends when last_uf == next_uf (the parent vectors
\* are compared); else the two are swapped and next_uf is reset.  A last_uf that
\* comes back means the loop never ends: hang.
RECURSIVE CorebuildLoop(_, _, _, _, _)
CorebuildLoop(e, last_uf, order, rev, seen) ==
    LET Compared(r) ==
            IF r.last_uf = r.next_uf
            THEN [hang |-> FALSE, last_uf |-> r.last_uf]
            ELSE IF r.next_uf \in seen
                 THEN [hang |-> TRUE, last_uf |-> r.last_uf]
                 ELSE CorebuildLoop(e, r.next_uf, order, rev, seen \cup {r.next_uf})
    IN  Compared(CorebuildTables(e, last_uf, SetAllNotEquals(last_uf), order, rev))

\* corebuild, the closing loop: every id is merged with its last_uf representative
\* in the main union-find.
RECURSIVE MergeIntoMain(_, _, _, _)
MergeIntoMain(u, last_uf, idx, num_classes) ==
    LET Rest(changed, rest) == [rest EXCEPT !.changed = @ \/ changed]
        Found(canon, f1, f2) ==
            Rest(f1.id # f2.id,
                 MergeIntoMain(Merge(f2.uf, idx, canon.id).uf, canon.uf, idx + 1,
                               num_classes))
        FoundId(canon, f1) == Found(canon, f1, Find(f1.uf, canon.id))
        Canon(canon) == FoundId(canon, Find(u, idx))
    IN  IF idx >= num_classes
        THEN [uf |-> u, changed |-> FALSE]
        ELSE Canon(Find(last_uf, idx))

\* A slip in corebuild: last_uf starts all-distinct instead of all-equal.
EGraphCorebuildFromDistinct(e, order, rev) ==
    LET num_classes == NumClasses(e.uf)
        Merged(m) == [hang |-> FALSE, e |-> [e EXCEPT !.uf = m.uf], changed |-> m.changed]
        Refined(l) ==
            IF l.hang
            THEN [hang |-> TRUE, e |-> e, changed |-> FALSE]
            ELSE Merged(MergeIntoMain(e.uf, l.last_uf, 0, num_classes))
    IN  Refined(CorebuildLoop(e, NewAllNotEquals(num_classes), order, rev,
                              {NewAllNotEquals(num_classes)}))

\* EGraph::corebuild
EGraphCorebuild(e, order, rev) ==
    LET num_classes == NumClasses(e.uf)
        Merged(m) == [hang |-> FALSE, e |-> [e EXCEPT !.uf = m.uf], changed |-> m.changed]
        Refined(l) ==
            IF l.hang
            THEN [hang |-> TRUE, e |-> e, changed |-> FALSE]
            ELSE Merged(MergeIntoMain(e.uf, l.last_uf, 0, num_classes))
    IN  Refined(CorebuildLoop(e, NewAllEquals(num_classes), order, rev,
                              {NewAllEquals(num_classes)}))

\* A slip in full_repair: corebuild is left out, rebuild alone is run.
FullRepairRebuildOnly(e, order, rev, changed) ==
    LET Rebuilt(r) == [hang |-> FALSE, e |-> r.e, changed |-> r.changed \/ changed]
    IN  Rebuilt(EGraphRebuild(e, order))

\* EGraph::full_repair: corebuild and rebuild alternate until rebuild changes nothing.
RECURSIVE FullRepairLoop(_, _, _, _)
FullRepairLoop(e, order, rev, changed) ==
    LET Rebuilt(c, r) ==
            IF ~r.changed
            THEN [hang |-> FALSE, e |-> r.e, changed |-> c.changed \/ changed]
            ELSE FullRepairLoop(r.e, order, rev, TRUE)
        Corebuilt(c) ==
            IF c.hang
            THEN [hang |-> TRUE, e |-> e, changed |-> changed]
            ELSE Rebuilt(c, EGraphRebuild(c.e, order))
    IN  Corebuilt(EGraphCorebuild(e, order, rev))

EGraphFullRepair(e, order, rev) == FullRepairLoop(e, order, rev, FALSE)

\* The orders in which a hash map over the signatures in use may be iterated.
TableOrders(e) ==
    LET d == DOMAIN e.tables
        n == Cardinality(d)
    IN  {o \in [1..n -> d] : \A i \in 1..n, j \in 1..n : o[i] = o[j] => i = j}

\* The live rows of a table, as row indices.
ELive(tb) == {i \in 0..(Len(tb.rows) - 1) : \A k \in 1..Len(tb.deleted_rows) : tb.deleted_rows[k] # i}

\* The table of a run that does not use the Table specification.
IdleTable ==
    /\ tbl = TableNew
    /\ tblOp = "new"
    /\ tblArg = << >>
    /\ tblRet = << >>

\* The e-graph of a run that does not use the EGraph specification.
IdleEGraph ==
    /\ eg = EGraphNew
    /\ egOp = "new"
    /\ egNode = << >>
    /\ egRoot = 0
    /\ egHit = FALSE
    /\ egRet = 0
    /\ egHung = FALSE
    /\ egPrev = << >>

-----------------------------------------------------------------------------
(* i32 arithmetic.  An Option is << >> (None) or <<v>> (Some(v)).            *)

I32Max == 2147483647

I32Min == -2147483647 - 1

Min4(a, b, c, d) == Min2(Min2(a, b), Min2(c, d))

Max4(a, b, c, d) == Max2(Max2(a, b), Max2(c, d))

\* i32::checked_add
CheckedAdd(a, b) ==
    IF (b > 0 /\ a > I32Max - b) \/ (b < 0 /\ a < I32Min - b) THEN << >> ELSE <<a + b>>

\* i32::checked_sub
CheckedSub(a, b) ==
    IF (b < 0 /\ a > I32Max + b) \/ (b > 0 /\ a < I32Min + b) THEN << >> ELSE <<a - b>>

\* The least integer q with q * b >= a, for b > 0.
CeilDiv(a, b) == IF a % b = 0 THEN a \div b ELSE (a \div b) + 1

\* i32::checked_mul
CheckedMul(a, b) ==
    IF a = 0 \/ b = 0 THEN <<0>>
    ELSE IF a = -1 THEN (IF b = I32Min THEN << >> ELSE <<0 - b>>)
    ELSE IF b = -1 THEN (IF a = I32Min THEN << >> ELSE <<0 - a>>)
    ELSE IF a > 0 /\ b > 0 THEN (IF a > I32Max \div b THEN << >> ELSE <<a * b>>)
    ELSE IF a > 0 /\ b < 0 THEN (IF b < CeilDiv(I32Min, a) THEN << >> ELSE <<a * b>>)
    ELSE IF a < 0 /\ b > 0 THEN (IF a < CeilDiv(I32Min, b) THEN << >> ELSE <<a * b>>)
    ELSE IF a = I32Min \/ b = I32Min THEN << >>
    ELSE IF (0 - a) > I32Max \div (0 - b) THEN << >> ELSE <<a * b>>

\* a / b rounded toward zero, for b > 0.
TruncDivPos(a, b) == IF a < 0 /\ a % b # 0 THEN (a \div b) + 1 ELSE a \div b

\* The i32 `/` operator where it does not panic (b # 0 and not MIN / -1).
TruncDiv(a, b) ==
    IF b > 0 THEN TruncDivPos(a, b)
    ELSE IF b = I32Min THEN (IF a = I32Min THEN 1 ELSE 0)
    ELSE 0 - TruncDivPos(a, 0 - b)

\* The i32 `/` operator panics on a zero divisor and on MIN / -1.
DivPanics(a, b) == b = 0 \/ (a = I32Min /\ b = -1)

\* i32::checked_div
CheckedDiv(a, b) == IF DivPanics(a, b) THEN << >> ELSE <<TruncDiv(a, b)>>

\* An i32 as a signed high half and an unsigned low half of 16 bits each.
Hi16(a) == a \div 65536

Lo16(a) == a % 65536

\* The i32 whose bits are the low 16 bits of hi followed by lo.
FromHalves(hi, lo) ==
    (IF hi % 65536 >= 32768 THEN (hi % 65536) - 65536 ELSE hi % 65536) * 65536 + lo

\* i32::wrapping_add
WrappingAdd(a, b) ==
    LET lo == Lo16(a) + Lo16(b)
    IN  FromHalves(Hi16(a) + Hi16(b) + (lo \div 65536), lo % 65536)

\* i32::wrapping_sub
WrappingSub(a, b) ==
    LET lo == Lo16(a) - Lo16(b)
    IN  FromHalves(Hi16(a) - Hi16(b) + (lo \div 65536), lo % 65536)

\* i32::wrapping_mul
WrappingMul(a, b) ==
    LET t1 == Lo16(a) * (Lo16(b) \div 256)
        t0 == Lo16(a) * (Lo16(b) % 256)
        low == (t1 % 256) * 256 + t0
        carry == (t1 \div 256) + (low \div 65536)
        cross == ((Hi16(a) * Lo16(b)) % 65536) + ((Lo16(a) * Hi16(b)) % 65536)
    IN  FromHalves((carry % 65536) + cross, low % 65536)

-----------------------------------------------------------------------------
(* The lattices of the abstract interpreter.  An Interval is a record        *)
(* [low, high]; a Concrete is [tag, val] with tag Bottom, Value or Top.      *)

IntervalOf(low, high) == [low |-> low, high |-> high]

IntervalTop == IntervalOf(I32Max, I32Min)

IntervalBottom == IntervalOf(I32Min, I32Max)

IntervalJoin(self, other) ==
    IntervalOf(Min2(self.low, other.low), Max2(self.high, other.high))

IntervalMeet(self, other) ==
    IF Max2(self.low, other.low) > Min2(self.high, other.high) THEN IntervalTop
    ELSE IntervalOf(Max2(self.low, other.low), Min2(self.high, other.high))

IntervalWidenAsJoin(self, other) ==
    IntervalOf(Min2(self.low, other.low), Max2(self.high, other.high))

IntervalWiden(self, other) ==
    IntervalOf(IF self.low <= other.low THEN self.low ELSE I32Min,
               IF self.high >= other.high THEN self.high ELSE I32Max)

IntervalIsKnownTrue(self) == self.low >= 1 \/ self.high <= -1

IntervalIsKnownFalse(self) == self = IntervalOf(0, 0) \/ self = IntervalTop

\* [low, high] of four optional products, or bottom when one overflowed.
IntervalOfFour(ll, lh, hl, hh) ==
    IF ll = << >> \/ lh = << >> \/ hl = << >> \/ hh = << >> THEN IntervalBottom
    ELSE IntervalOf(Min4(ll[1], lh[1], hl[1], hh[1]), Max4(ll[1], lh[1], hl[1], hh[1]))

\* The closures of Interval::forward_transfer, by operator.  None is a panic.
IntervalBinary(op, lhs, rhs) ==
    CASE op = "Add" ->
           IF CheckedAdd(lhs.low, rhs.low) = << >> \/ CheckedAdd(lhs.high, rhs.high) = << >>
           THEN <<IntervalBottom>>
           ELSE <<IntervalOf(lhs.low + rhs.low, lhs.high + rhs.high)>>
      [] op = "Subtract" ->
           IF CheckedSub(lhs.low, rhs.high) = << >> \/ CheckedSub(lhs.high, rhs.low) = << >>
           THEN <<IntervalBottom>>
           ELSE <<IntervalOf(lhs.low - rhs.high, lhs.high - rhs.low)>>
      [] op = "Multiply" ->
           <<IntervalOfFour(CheckedMul(lhs.low, rhs.low), CheckedMul(lhs.low, rhs.high),
                            CheckedMul(lhs.high, rhs.low), CheckedMul(lhs.high, rhs.high))>>
      [] op = "Divide" ->
           LET Quotients(dl, dh) ==
                   IF DivPanics(lhs.low, dl) \/ DivPanics(lhs.low, dh)
                      \/ DivPanics(lhs.high, dl) \/ DivPanics(lhs.high, dh)
                   THEN << >>
                   ELSE <<IntervalOfFour(<<TruncDiv(lhs.low, dl)>>, <<TruncDiv(lhs.low, dh)>>,
                                         <<TruncDiv(lhs.high, dl)>>, <<TruncDiv(lhs.high, dh)>>)>>
           IN  Quotients(IF rhs.low # 0 THEN rhs.low ELSE 1,
                         IF rhs.high # 0 THEN rhs.high ELSE -1)
      [] op = "EqualsEquals" ->
           IF lhs = rhs THEN <<IntervalOf(1, 1)>>
           ELSE IF rhs.high < lhs.low \/ lhs.high < rhs.low THEN <<IntervalOf(0, 0)>>
           ELSE <<IntervalOf(0, 1)>>
      [] op = "NotEquals" ->
           IF lhs = rhs THEN <<IntervalOf(0, 0)>>
           ELSE IF rhs.high < lhs.low \/ lhs.high < rhs.low THEN <<IntervalOf(1, 1)>>
           ELSE <<IntervalOf(0, 1)>>
      [] op = "Less" ->
           IF lhs.high < rhs.low THEN <<IntervalOf(1, 1)>>
           ELSE IF rhs.high <= lhs.low THEN <<IntervalOf(0, 0)>>
           ELSE <<IntervalOf(0, 1)>>
      [] op = "LessEquals" ->
           IF lhs.high <= rhs.low THEN <<IntervalOf(1, 1)>>
           ELSE IF rhs.high < lhs.low THEN <<IntervalOf(0, 0)>>
           ELSE <<IntervalOf(0, 1)>>
      [] OTHER -> << >>

ConcreteBottom == [tag |-> "Bottom", val |-> 0]

ConcreteValue(v) == [tag |-> "Value", val |-> v]

ConcreteTop == [tag |-> "Top", val |-> 0]

\* Concrete::join that keeps the receiver when the two values differ.
ConcreteJoinKeepSelf(self, other) ==
    IF self = ConcreteTop THEN other
    ELSE IF other = ConcreteTop THEN self
    ELSE self

ConcreteJoin(self, other) ==
    IF self = ConcreteTop THEN other
    ELSE IF other = ConcreteTop THEN self
    ELSE IF self = other THEN self
    ELSE ConcreteBottom

ConcreteMeet(self, other) ==
    IF self = ConcreteBottom THEN other
    ELSE IF other = ConcreteBottom THEN self
    ELSE IF self = other THEN self
    ELSE ConcreteTop

ConcreteWiden(self, other) == other

ConcreteIsKnownTrue(self) ==
    self.tag = "Top" \/ (self.tag = "Value" /\ self.val # 0)

ConcreteIsKnownFalse(self) ==
    self.tag = "Top" \/ (self.tag = "Value" /\ self.val = 0)

BoolAsI32(b) == IF b THEN 1 ELSE 0

\* The closures of Concrete::forward_transfer, by operator, as Option<i32>.
ConcreteFunc(op, a, b) ==
    CASE op = "Add" -> <<WrappingAdd(a, b)>>
      [] op = "Subtract" -> <<WrappingSub(a, b)>>
      [] op = "Multiply" -> <<WrappingMul(a, b)>>
      [] op = "Divide" -> CheckedDiv(a, b)
      [] op = "Modulo" ->
           IF DivPanics(a, b) THEN << >> ELSE <<a - TruncDiv(a, b) * b>>
      [] op = "EqualsEquals" -> <<BoolAsI32(a = b)>>
      [] op = "NotEquals" -> <<BoolAsI32(a # b)>>
      [] op = "Less" -> <<BoolAsI32(a < b)>>
      [] op = "LessEquals" -> <<BoolAsI32(a <= b)>>
      [] op = "Greater" -> <<BoolAsI32(a > b)>>
      [] op = "GreaterEquals" -> <<BoolAsI32(a >= b)>>
      [] OTHER -> << >>

\* The eval closure of Concrete::forward_transfer.
ConcreteEval(op, lhs, rhs) ==
    IF lhs.tag # "Value" \/ rhs.tag # "Value" THEN ConcreteTop
    ELSE LET Wrap(r) == IF r = << >> THEN ConcreteTop ELSE ConcreteValue(r[1])
         IN  Wrap(ConcreteFunc(op, lhs.val, rhs.val))

-----------------------------------------------------------------------------
(* intersect_btree_maps and LatticeDomain.  A BTreeMap is a function on a    *)
(* finite set of keys; its iterator is the sequence of its keys, ascending.  *)
(* An expression is a tuple <<constructor, fields...>> of ExpressionAST.     *)

BTreeIter(map) == SortedSeq(DOMAIN map)

\* The loop of next() advancing both iterators whenever the keys differ.
RECURSIVE IntersectLoopAdvanceBoth(_, _, _, _)
IntersectLoopAdvanceBoth(a_pair, a_iter, b_pair, b_iter) ==
    IF a_pair # b_pair
    THEN IF a_iter = << >> \/ b_iter = << >>
         THEN [item |-> << >>, a_iter |-> a_iter, b_iter |-> b_iter]
         ELSE IntersectLoopAdvanceBoth(Head(a_iter), Tail(a_iter),
                                       Head(b_iter), Tail(b_iter))
    ELSE [item |-> <<a_pair>>, a_iter |-> a_iter, b_iter |-> b_iter]

\* IntersectBTreeMapIterator::next, the loop: a_pair and b_pair are the keys
\* in hand, a_iter and b_iter what the two iterators still hold.
RECURSIVE IntersectLoop(_, _, _, _)
IntersectLoop(a_pair, a_iter, b_pair, b_iter) ==
    IF a_pair < b_pair
    THEN IF a_iter = << >>
         THEN [item |-> << >>, a_iter |-> a_iter, b_iter |-> b_iter]
         ELSE IntersectLoop(Head(a_iter), Tail(a_iter), b_pair, b_iter)
    ELSE IF b_pair < a_pair
    THEN IF b_iter = << >>
         THEN [item |-> << >>, a_iter |-> a_iter, b_iter |-> b_iter]
         ELSE IntersectLoop(a_pair, a_iter, Head(b_iter), Tail(b_iter))
    ELSE [item |-> <<a_pair>>, a_iter |-> a_iter, b_iter |-> b_iter]

\* IntersectBTreeMapIterator::next: both iterators are advanced first.
IntersectNext(a_iter, b_iter) ==
    IF a_iter = << >> \/ b_iter = << >>
    THEN [item |-> << >>, a_iter |-> IF a_iter = << >> THEN a_iter ELSE Tail(a_iter),
          b_iter |-> IF b_iter = << >> THEN b_iter ELSE Tail(b_iter)]
    ELSE IntersectLoop(Head(a_iter), Tail(a_iter), Head(b_iter), Tail(b_iter))

\* The keys a for loop over the iterator visits, in order.
RECURSIVE IntersectCollect(_, _)
IntersectCollect(a_iter, b_iter) ==
    LET Step(n) ==
            IF n.item = << >> THEN << >>
            ELSE n.item \o IntersectCollect(n.a_iter, n.b_iter)
    IN  Step(IntersectNext(a_iter, b_iter))

\* intersect_btree_maps(a, b), as the sequence of the keys it yields.
IntersectBTreeMaps(a, b) == IntersectCollect(BTreeIter(a), BTreeIter(b))

SeqRange(s) == {s[i] : i \in 1..Len(s)}

LatticeTop(dom) == IF dom = "interval" THEN IntervalTop ELSE ConcreteTop

LatticeBottom(dom) == IF dom = "interval" THEN IntervalBottom ELSE ConcreteBottom

ValueJoin(dom, a, b) == IF dom = "interval" THEN IntervalJoin(a, b) ELSE ConcreteJoin(a, b)

ValueWiden(dom, a, b) == IF dom = "interval" THEN IntervalWiden(a, b) ELSE ConcreteWiden(a, b)

IsKnownTrue(dom, v) ==
    IF dom = "interval" THEN IntervalIsKnownTrue(v) ELSE ConcreteIsKnownTrue(v)

IsKnownFalse(dom, v) ==
    IF dom = "interval" THEN IntervalIsKnownFalse(v) ELSE ConcreteIsKnownFalse(v)

\* BTreeMap::new
BTreeMapNew == [k \in {} |-> 0]

\* LatticeDomain::new: no variable is bound.
LatticeDomainNew == BTreeMapNew

\* LatticeDomain::lookup
Lookup(dom, ad, var) == IF var \in DOMAIN ad THEN ad[var] ELSE LatticeTop(dom)

\* LatticeDomain::assign
Assign(ad, var, val) ==
    [v \in DOMAIN ad \cup {var} |-> IF v = var THEN val ELSE ad[v]]

\* LatticeDomain::branch: an Option for the true side and one for the false side.
Branch(dom, ad, cond) ==
    IF IsKnownFalse(dom, cond) THEN [t |-> << >>, f |-> <<ad>>]
    ELSE IF IsKnownTrue(dom, cond) THEN [t |-> <<ad>>, f |-> << >>]
    ELSE [t |-> <<ad>>, f |-> <<ad>>]

\* LatticeDomain::join
LatticeJoin(dom, self, other) ==
    [var \in SeqRange(IntersectBTreeMaps(self, other)) |->
        ValueJoin(dom, self[var], other[var])]

\* LatticeDomain::widen
LatticeWiden(dom, self, other) ==
    [var \in SeqRange(IntersectBTreeMaps(self, other)) |->
        ValueWiden(dom, self[var], other[var])]

\* Interval::forward_transfer for ExpressionAST; None is a panic.
RECURSIVE IntervalForwardTransfer(_, _)
IntervalForwardTransfer(expr, ad) ==
    LET Eval(op, lhs, rhs) ==
            IF lhs = << >> \/ rhs = << >> THEN << >>
            ELSE IntervalBinary(op, lhs[1], rhs[1])
    IN  CASE expr[1] = "NumberLiteral" -> <<IntervalOf(expr[2], expr[2])>>
          [] expr[1] = "Variable" -> <<Lookup("interval", ad, expr[2])>>
          [] expr[1] \in {"Call", "Modulo"} -> << >>
          [] expr[1] = "Greater" ->
               Eval("Less", IntervalForwardTransfer(expr[3], ad),
                            IntervalForwardTransfer(expr[2], ad))
          [] expr[1] = "GreaterEquals" ->
               Eval("LessEquals", IntervalForwardTransfer(expr[3], ad),
                                  IntervalForwardTransfer(expr[2], ad))
          [] OTHER ->
               Eval(expr[1], IntervalForwardTransfer(expr[2], ad),
                             IntervalForwardTransfer(expr[3], ad))

\* Concrete::forward_transfer for ExpressionAST; None is a panic.
RECURSIVE ConcreteForwardTransfer(_, _)
ConcreteForwardTransfer(expr, ad) ==
    LET Eval(op, lhs, rhs) ==
            IF lhs = << >> \/ rhs = << >> THEN << >>
            ELSE <<ConcreteEval(op, lhs[1], rhs[1])>>
    IN  CASE expr[1] = "NumberLiteral" -> <<ConcreteValue(expr[2])>>
          [] expr[1] = "Variable" -> <<Lookup("concrete", ad, expr[2])>>
          [] expr[1] = "Call" -> << >>
          [] OTHER ->
               Eval(expr[1], ConcreteForwardTransfer(expr[2], ad),
                             ConcreteForwardTransfer(expr[3], ad))

\* LatticeDomain::forward_transfer
ForwardTransfer(dom, expr, ad) ==
    IF dom = "interval" THEN IntervalForwardTransfer(expr, ad)
    ELSE ConcreteForwardTransfer(expr, ad)

\* BTreeMap index (map[&key]), which panics on a key the map does not hold.
BTreeMapIndex(map, key) == IF key \in DOMAIN map THEN <<map[key]>> ELSE << >>

-----------------------------------------------------------------------------
(* ai/src/essa.rs : join and widen of ESSADomain.  An ESSADomain is           *)
(* [var_to_val, ad] with ad the var_to_val of the inner LatticeDomain over    *)
(* class ids; the graph and static_phis it refers to are passed along.        *)

\* The value of the unit domain ().
UnitValue == "()"

\* lookup of the inner domain: () for the unit domain.
InnerLookup(dom, ad, class_id) ==
    IF dom = "unit" THEN UnitValue ELSE Lookup(dom, ad, class_id)

\* assign of the inner domain: nothing for the unit domain.
InnerAssign(dom, ad, class_id, val) ==
    IF dom = "unit" THEN ad ELSE Assign(ad, class_id, val)

\* branch of the inner domain: (Some(()), Some(())) for the unit domain.
InnerBranch(dom, ad, cond) ==
    IF dom = "unit" THEN [t |-> <<ad>>, f |-> <<ad>>] ELSE Branch(dom, ad, cond)

\* ESSADomain::lookup: the class of var and the inner domain's value for
\* it, as an Option; None is a panic.
ESSALookup(dom, self, var) ==
    LET Found(class_id) ==
            IF class_id = << >> THEN << >>
            ELSE <<<<class_id[1], InnerLookup(dom, self.ad, class_id[1])>>>>
    IN  Found(BTreeMapIndex(self.var_to_val, var))

\* ESSADomain::assign
ESSAAssign(dom, self, var, val) ==
    [var_to_val |-> Assign(self.var_to_val, var, val[1]),
     ad |-> InnerAssign(dom, self.ad, val[1], val[2])]

\* ESSADomain::branch: the inner domain branches, each side is rewrapped.
ESSABranch(dom, self, cond) ==
    LET Wrap(side) ==
            IF side = << >> THEN << >>
            ELSE <<[var_to_val |-> self.var_to_val, ad |-> side[1]]>>
        Sides(b) == [t |-> Wrap(b.t), f |-> Wrap(b.f)]
    IN  Sides(InnerBranch(dom, self.ad, cond[2]))

\* Term::signature of Parameter(u32, ClassId).
SigParameter ==
    [class_id_mask |-> <<0, 1>>, num_det_cols |-> 1, num_dep_cols |-> 1, symbol_id |-> 1]

\* Term::signature of the binary terms, by constructor.
TermSymbolId(op) ==
    CASE op = "Add" -> 3
      [] op = "Subtract" -> 4
      [] op = "Multiply" -> 5
      [] op = "Divide" -> 6
      [] op = "Modulo" -> 7
      [] op = "EqualsEquals" -> 8
      [] op = "NotEquals" -> 9
      [] op = "Less" -> 10
      [] op = "LessEquals" -> 11
      [] op = "Greater" -> 12
      [] op = "GreaterEquals" -> 13

SigBinary(op) ==
    [class_id_mask |-> <<1, 1, 1>>, num_det_cols |-> 2, num_dep_cols |-> 1,
     symbol_id |-> TermSymbolId(op)]

\* ESSADomain::bottom: a fresh class interned as the next Parameter, with the
\* inner domain's bottom.
ESSABottom(dom, graph, num_params) ==
    LET Interned(ins) ==
            [val |-> <<ins.id, IF dom = "unit" THEN UnitValue ELSE LatticeBottom(dom)>>,
             graph |-> ins.e, num_params |-> num_params + 1]
        Made(m) ==
            Interned(EGraphInsert([graph EXCEPT !.uf = m.uf], SigParameter,
                                  <<num_params, m.id>>))
    IN  Made(Makeset(graph.uf))

\* forward_transfer of the inner domain on a Term whose operands are class
\* ids: Interval::forward_transfer for Term, () for the unit domain.  The
\* functions interpreted use no Divide and no Modulo, so it never panics.
TermForwardTransfer(dom, term, ad) ==
    IF dom = "unit" THEN UnitValue
    ELSE CASE term[1] = "Constant" -> IntervalOf(term[2], term[2])
           [] term[1] = "Greater" ->
                IntervalBinary("Less", Lookup(dom, ad, term[3]), Lookup(dom, ad, term[2]))[1]
           [] term[1] = "GreaterEquals" ->
                IntervalBinary("LessEquals", Lookup(dom, ad, term[3]),
                               Lookup(dom, ad, term[2]))[1]
           [] OTHER ->
                IntervalBinary(term[1], Lookup(dom, ad, term[2]), Lookup(dom, ad, term[3]))[1]

\* ESSADomain::forward_transfer: the term of expr is interned, the inner
\* domain evaluates it, and the class takes the value.
RECURSIVE ESSAForwardTransfer(_, _, _, _)
ESSAForwardTransfer(dom, expr, self, graph) ==
    LET Done(class_id, ad_value, s, g) ==
            [val |-> <<class_id, ad_value>>,
             self |-> [s EXCEPT !.ad = InnerAssign(dom, @, class_id, ad_value)],
             graph |-> g]
        Literal(ins) ==
            Done(ins.id, TermForwardTransfer(dom, <<"Constant", expr[2]>>, self.ad),
                 self, ins.e)
        LiteralRoot(m) ==
            Literal(EGraphInsert([graph EXCEPT !.uf = m.uf], SigConstant, <<expr[2], m.id>>))
        Variable(found) == Done(found[1], found[2], self, graph)
        Binary(l, r, ins) ==
            Done(ins.id,
                 TermForwardTransfer(dom, <<expr[1], l.val[1], r.val[1]>>, r.self.ad),
                 r.self, ins.e)
        BinaryRoot(l, r, m) ==
            Binary(l, r, EGraphInsert([r.graph EXCEPT !.uf = m.uf], SigBinary(expr[1]),
                                      <<l.val[1], r.val[1], m.id>>))
        Rhs(l, r) == BinaryRoot(l, r, Makeset(r.graph.uf))
        Lhs(l) == Rhs(l, ESSAForwardTransfer(dom, expr[3], l.self, l.graph))
    IN  CASE expr[1] = "NumberLiteral" -> LiteralRoot(Makeset(graph.uf))
          [] expr[1] = "Variable" -> Variable(ESSALookup(dom, self, expr[2])[1])
          [] OTHER -> Lhs(ESSAForwardTransfer(dom, expr[2], self, graph))

\* The signature of Term::Phi(BlockId, ClassId, ClassId, ClassId).
SigPhi ==
    [class_id_mask |-> <<0, 1, 1, 1>>, num_det_cols |-> 3, num_dep_cols |-> 1, symbol_id |-> 2]

\* The state the loops of join and widen thread through their iterations.
MergeLoopState(self, other, graph, phis) ==
    [graph |-> graph, self_ad |-> self.ad, other_ad |-> other.ad,
     var_to_val |-> BTreeMapNew, phi |-> 0, phis |-> phis, new_static_phi |-> FALSE]

\* A slip in join's else branch: the right state's value is read at the left
\* operand's class.
MakePhiLeftClass(dom, st, self_val, other_val, unique_id) ==
    LET Interned(root, ins) ==
            [st EXCEPT !.graph = ins.e,
                       !.self_ad = InnerAssign(dom, @, root,
                                               InnerLookup(dom, st.self_ad, self_val)),
                       !.other_ad = InnerAssign(dom, @, root,
                                                InnerLookup(dom, st.other_ad, self_val)),
                       !.phi = ins.id]
        Made(m) ==
            Interned(m.id, EGraphInsert([st.graph EXCEPT !.uf = m.uf], SigPhi,
                                        <<unique_id, self_val, other_val, m.id>>))
    IN  Made(Makeset(st.graph.uf))

\* The body of join's else branch and the closure make_phi of widen: a fresh
\* class takes the operands' values and the Phi term is interned; phi is what
\* EGraph::insert returned.
MakePhi(dom, st, self_val, other_val, unique_id) ==
    LET Interned(root, ins) ==
            [st EXCEPT !.graph = ins.e,
                       !.self_ad = InnerAssign(dom, @, root,
                                               InnerLookup(dom, st.self_ad, self_val)),
                       !.other_ad = InnerAssign(dom, @, root,
                                                InnerLookup(dom, st.other_ad, other_val)),
                       !.phi = ins.id]
        Made(m) ==
            Interned(m.id, EGraphInsert([st.graph EXCEPT !.uf = m.uf], SigPhi,
                                        <<unique_id, self_val, other_val, m.id>>))
    IN  Made(Makeset(st.graph.uf))

\* The for loop of ESSADomain::join over the keys intersect_btree_maps yields.
RECURSIVE ESSAJoinLoop(_, _, _, _, _, _)
ESSAJoinLoop(dom, keys, self, other, st, unique_id) ==
    LET Bound(p) == [p EXCEPT !.var_to_val = Assign(@, Head(keys), p.phi)]
    IN  IF keys = << >> THEN st
        ELSE IF self.var_to_val[Head(keys)] = other.var_to_val[Head(keys)]
        THEN ESSAJoinLoop(dom, Tail(keys), self, other,
                          [st EXCEPT !.var_to_val =
                               Assign(@, Head(keys), self.var_to_val[Head(keys)])],
                          unique_id)
        ELSE ESSAJoinLoop(dom, Tail(keys), self, other,
                          Bound(MakePhi(dom, st, self.var_to_val[Head(keys)],
                                        other.var_to_val[Head(keys)], unique_id)),
                          unique_id)

\* ESSADomain::join
ESSAJoin(dom, self, other, graph, unique_id) ==
    LET Joined(st) ==
            [out |-> [var_to_val |-> st.var_to_val,
                      ad |-> LatticeJoin(dom, st.self_ad, st.other_ad)],
             graph |-> st.graph]
    IN  Joined(ESSAJoinLoop(dom, IntersectBTreeMaps(self.var_to_val, other.var_to_val),
                            self, other,
                            MergeLoopState(self, other, graph, BTreeMapNew),
                            unique_id))

\* The for loop of ESSADomain::widen; st.phis is the entry of static_phis for
\* unique_id.
RECURSIVE ESSAWidenLoop(_, _, _, _, _, _)
ESSAWidenLoop(dom, keys, self, other, st, unique_id) ==
    LET Known(p) ==
            [p EXCEPT !.var_to_val = Assign(@, Head(keys), st.phis[Head(keys)][1]),
                      !.phis = Assign(@, Head(keys), <<st.phis[Head(keys)][1], p.phi>>)]
        Fresh(static_phi, p) ==
            [p EXCEPT !.var_to_val = Assign(@, Head(keys), static_phi),
                      !.phis = Assign(@, Head(keys), <<static_phi, p.phi>>),
                      !.new_static_phi = TRUE]
        Made(m) ==
            Fresh(m.id, MakePhi(dom, [st EXCEPT !.graph.uf = m.uf],
                                self.var_to_val[Head(keys)],
                                other.var_to_val[Head(keys)], unique_id))
    IN  IF keys = << >> THEN st
        ELSE IF self.var_to_val[Head(keys)] = other.var_to_val[Head(keys)]
        THEN ESSAWidenLoop(dom, Tail(keys), self, other,
                           [st EXCEPT !.var_to_val =
                                Assign(@, Head(keys), self.var_to_val[Head(keys)])],
                           unique_id)
        ELSE IF Head(keys) \in DOMAIN st.phis
        THEN ESSAWidenLoop(dom, Tail(keys), self, other,
                           Known(MakePhi(dom, st, self.var_to_val[Head(keys)],
                                         other.var_to_val[Head(keys)], unique_id)),
                           unique_id)
        ELSE ESSAWidenLoop(dom, Tail(keys), self, other,
                           Made(Makeset(st.graph.uf)), unique_id)

\* widen, if !new_static_phi: every static phi takes the value of its last
\* transient phi and is merged with it in the e-graph.
RECURSIVE MergeStaticPhis(_, _, _, _, _)
MergeStaticPhis(dom, vars_, phis, merged_ad, graph) ==
    IF vars_ = << >> THEN [ad |-> merged_ad, graph |-> graph]
    ELSE MergeStaticPhis(dom, Tail(vars_), phis,
                         InnerAssign(dom, merged_ad, phis[Head(vars_)][1],
                                     InnerLookup(dom, merged_ad, phis[Head(vars_)][2])),
                         [graph EXCEPT !.uf =
                              Merge(@, phis[Head(vars_)][1], phis[Head(vars_)][2]).uf])

\* A BTreeMap without the key.
Remove(map, key) == [k \in DOMAIN map \ {key} |-> map[k]]

\* ESSADomain::widen
ESSAWiden(dom, self, other, graph, static_phis, unique_id) ==
    LET Settled(st, m) ==
            [out |-> [var_to_val |-> st.var_to_val, ad |-> m.ad],
             graph |-> m.graph,
             static_phis |-> Remove(static_phis, unique_id)]
        Widened(st) ==
            IF st.new_static_phi
            THEN [out |-> [var_to_val |-> st.var_to_val,
                           ad |-> LatticeWiden(dom, st.self_ad, st.other_ad)],
                  graph |-> st.graph,
                  static_phis |-> Assign(static_phis, unique_id, st.phis)]
            ELSE Settled(st, MergeStaticPhis(dom, BTreeIter(st.phis), st.phis,
                                             LatticeWiden(dom, st.self_ad, st.other_ad),
                                             st.graph))
    IN  Widened(ESSAWidenLoop(dom, IntersectBTreeMaps(self.var_to_val, other.var_to_val),
                              self, other,
                              MergeLoopState(self, other, graph,
                                             IF unique_id \in DOMAIN static_phis
                                             THEN static_phis[unique_id]
                                             ELSE BTreeMapNew),
                              unique_id))

-----------------------------------------------------------------------------
(* ai/src/imp.rs : the abstract interpreter.  A statement is a tuple         *)
(* <<constructor, fields...>> of StatementAST, a block the sequence of its   *)
(* statements, an Option<BlockAST> << >> or <<block>>.                       *)

Num(lit) == <<"NumberLiteral", lit>>

Var(symbol) == <<"Variable", symbol>>

\* A call of ai_block in progress: the statements it has still to interpret.
BlockFrame(stmts) == [k |-> "block", stmts |-> stmts]

\* ai_stmt (IfElse) while the true block is interpreted.
IfTrueFrame(false_ad, false_block, unique_id_fix) ==
    [k |-> "if_true", false_ad |-> false_ad, false_block |-> false_block,
     unique_id_fix |-> unique_id_fix]

\* ai_stmt (IfElse) while the false block is interpreted.
IfFalseFrame(true_ad, unique_id_fix) ==
    [k |-> "if_false", true_ad |-> true_ad, unique_id_fix |-> unique_id_fix]

\* ai_stmt (While): phase "head" before the condition is evaluated, "body"
\* while the body is interpreted; passes counts the iterations of the loop
\* since the statement was entered, bottom is the state the body returned in
\* the last iteration it completed (None before the first).
WhileFrame(expr, block, init, unique_id_fix) ==
    [k |-> "while", expr |-> expr, block |-> block, init |-> init, ad |-> init,
     exit |-> << >>, unique_id_fix |-> unique_id_fix, phase |-> "head", passes |-> 0,
     bottom |-> << >>]

\* match (true_ad, false_ad) at the end of ai_stmt (IfElse).
MatchIfElse(dom, true_ad, false_ad) ==
    IF Len(true_ad) > 0 /\ Len(false_ad) > 0
    THEN <<LatticeJoin(dom, true_ad[1], false_ad[1])>>
    ELSE IF Len(true_ad) > 0 THEN true_ad
    ELSE false_ad

\* ai_stmt (IfElse) from the false side on: interpret the false block if the
\* false state and the block exist, else match at once.
IfElseFalseSide(dom, true_ad, false_ad, false_block, unique_id_fix, stack) ==
    IF Len(false_ad) > 0 /\ Len(false_block) > 0
    THEN [ad |-> false_ad,
          stack |-> <<BlockFrame(false_block[1]), IfFalseFrame(true_ad, unique_id_fix)>>
                    \o stack]
    ELSE [ad |-> MatchIfElse(dom, true_ad, false_ad), stack |-> stack]

\* The interpreter of a run that does not use the interpreter specification.
IdleAI ==
    /\ aiDom = "interval"
    /\ aiFn = 0
    /\ aiStatus = "idle"
    /\ aiAd = << >>
    /\ aiStack = << >>
    /\ aiUid = 0
    /\ aiFinished = LatticeDomainNew
    /\ aiReturns = << >>

\* The lattice values of a run that does not use the lattice specification.
IdleLattice ==
    /\ latKind = "idle"
    /\ latOp = "idle"
    /\ latA = 0
    /\ latB = 0
    /\ latC = 0
    /\ latOut = << >>

\* The domain of a run that does not use the domain specification.
IdleDomain ==
    /\ domKind = "idle"
    /\ domOp = "idle"
    /\ domAd = LatticeDomainNew
    /\ domArg = << >>
    /\ domOut = << >>

\* The ESSA interpreter of a run that does not use the ESSA specification.
IdleESSA ==
    /\ esDom = "idle"
    /\ esFn = 0
    /\ esPc = <<"idle", 0>>
    /\ esInit = << >>
    /\ esHead = << >>
    /\ esAd = << >>
    /\ esExit = << >>
    /\ esGraph = EGraphNew
    /\ esStaticPhis = BTreeMapNew
    /\ esNumParams = 0
    /\ esWidened = << >>

\* The merge operands of a run that does not use the merge specification.
IdleMerge ==
    /\ mgOp = "idle"
    /\ mgKind = "lattice"
    /\ mgSelf = LatticeDomainNew
    /\ mgOther = LatticeDomainNew
    /\ mgOut = LatticeDomainNew
    /\ mgGraph = EGraphNew
    /\ mgStaticPhis = BTreeMapNew
    /\ mgLookup = << >>

-----------------------------------------------------------------------------
(* The EGraph specification: an e-graph driven by makeset, insert, merge,   *)
(* find, rebuild, corebuild and full_repair.  A call that never returns     *)
(* sets egHung and nothing follows it.                                      *)

\* The nodes a client may insert: class-id columns and the root are ids it holds.
ENodeRows(sig) ==
    IF sig = SigConstant
    THEN {<<c, root>> : c \in 0..EgMaxConst, root \in Ids(eg.uf)}
    ELSE {<<l, r, root>> : l \in Ids(eg.uf), r \in Ids(eg.uf), root \in Ids(eg.uf)}

\* What egPrev becomes when a call is made.
PrevRepair == IF egOp = "full_repair" /\ ~egHung THEN <<egOp, egRet>> ELSE << >>

RECURSIVE TotalRows(_, _)
TotalRows(e, sigs) ==
    IF sigs = {} THEN 0
    ELSE LET sig == CHOOSE x \in sigs : TRUE
         IN  Len(e.tables[sig].rows) + TotalRows(e, sigs \ {sig})

RowsFit(e) == TotalRows(e, DOMAIN e.tables) <= EgMaxRows

InitEGraph ==
    /\ IdleEGraph
    /\ IdleUF
    /\ IdleTable
    /\ IdleESSA
    /\ IdleLattice
    /\ IdleDomain
    /\ IdleAI
    /\ IdleMerge
    /\ IdleXlog

EMakeset ==
    /\ ~egHung
    /\ Len(eg.uf) < EgMaxIds
    /\ LET r == Makeset(eg.uf)
       IN  /\ eg' = [eg EXCEPT !.uf = r.uf]
           /\ egRet' = 0
    /\ egOp' = "uf"
    /\ egHung' = FALSE
    /\ egNode' = << >>
    /\ egRoot' = 0
    /\ egHit' = FALSE
    /\ egPrev' = PrevRepair
    /\ UNCHANGED <<ufVars, tblVars, aiVars, mgVars, latVars, domVars, esVars, xlVars>>

EInsert ==
    /\ ~egHung
    /\ \E sig \in Signatures : \E row \in ENodeRows(sig) :
           \E r \in {EGraphInsert(eg, sig, row)} :
               /\ RowsFit(r.e)
               /\ eg' = r.e
               /\ egRet' = r.id
               /\ egNode' = <<sig, row>>
               /\ egRoot' = EDep(sig, row)[1]
               /\ egHit' = r.found
    /\ egOp' = "insert"
    /\ egHung' = FALSE
    /\ egPrev' = PrevRepair
    /\ UNCHANGED <<ufVars, tblVars, aiVars, mgVars, latVars, domVars, esVars, xlVars>>

EMerge ==
    /\ ~egHung
    /\ \E a \in Ids(eg.uf), b \in Ids(eg.uf) :
           \E r \in {Merge(eg.uf, a, b)} :
               /\ eg' = [eg EXCEPT !.uf = r.uf]
               /\ egRet' = 0
    /\ egOp' = "uf"
    /\ egHung' = FALSE
    /\ egNode' = << >>
    /\ egRoot' = 0
    /\ egHit' = FALSE
    /\ egPrev' = PrevRepair
    /\ UNCHANGED <<ufVars, tblVars, aiVars, mgVars, latVars, domVars, esVars, xlVars>>

EFind ==
    /\ ~egHung
    /\ \E x \in Ids(eg.uf) :
           \E r \in {Find(eg.uf, x)} :
               /\ eg' = [eg EXCEPT !.uf = r.uf]
               /\ egRet' = 0
    /\ egOp' = "uf"
    /\ egHung' = FALSE
    /\ egNode' = << >>
    /\ egRoot' = 0
    /\ egHit' = FALSE
    /\ egPrev' = PrevRepair
    /\ UNCHANGED <<ufVars, tblVars, aiVars, mgVars, latVars, domVars, esVars, xlVars>>

ERebuild ==
    /\ ~egHung
    /\ \E order \in TableOrders(eg) :
           \E r \in {EGraphRebuild(eg, order)} :
               /\ RowsFit(r.e)
               /\ eg' = r.e
               /\ egRet' = r.changed
    /\ egOp' = "rebuild"
    /\ egHung' = FALSE
    /\ egNode' = << >>
    /\ egRoot' = 0
    /\ egHit' = FALSE
    /\ egPrev' = PrevRepair
    /\ UNCHANGED <<ufVars, tblVars, aiVars, mgVars, latVars, domVars, esVars, xlVars>>

ECorebuild ==
    /\ ~egHung
    /\ \E order \in TableOrders(eg), rev \in BOOLEAN :
           \E r \in {EGraphCorebuild(eg, order, rev)} :
               /\ eg' = r.e
               /\ egRet' = r.changed
               /\ egHung' = r.hang
    /\ egOp' = "corebuild"
    /\ egNode' = << >>
    /\ egRoot' = 0
    /\ egHit' = FALSE
    /\ egPrev' = PrevRepair
    /\ UNCHANGED <<ufVars, tblVars, aiVars, mgVars, latVars, domVars, esVars, xlVars>>

EFullRepair ==
    /\ ~egHung
    /\ \E order \in TableOrders(eg), rev \in BOOLEAN :
           \E r \in {EGraphFullRepair(eg, order, rev)} :
               /\ RowsFit(r.e)
               /\ eg' = r.e
               /\ egRet' = r.changed
               /\ egHung' = r.hang
    /\ egOp' = "full_repair"
    /\ egNode' = << >>
    /\ egRoot' = 0
    /\ egHit' = FALSE
    /\ egPrev' = PrevRepair
    /\ UNCHANGED <<ufVars, tblVars, aiVars, mgVars, latVars, domVars, esVars, xlVars>>

NextEGraph ==
    EMakeset \/ EInsert \/ EMerge \/ EFind \/ ERebuild \/ ECorebuild \/ EFullRepair

SpecEGraph == InitEGraph /\ [][NextEGraph]_vars

\* A row is canonical when each class-id column is its own representative.
RowCanonical(u, sig, row) ==
    \A col \in 1..Len(row) : sig.class_id_mask[col] = 1 => Find(u, row[col]).id = row[col]

\* C1: after full_repair returns, in every table every live row has each of its
\* class-id columns (determinant and root alike) equal to its representative.
C1_RowsCanonicalAfterFullRepair ==
    (egOp = "full_repair" /\ ~egHung) =>
        \A sig \in DOMAIN eg.tables : \A i \in ELive(eg.tables[sig]) :
            RowCanonical(eg.uf, sig, eg.tables[sig].rows[i + 1])

\* C1 witness: a full_repair that changed something has returned, and a live row
\* is the canonical form of a non-canonical row the repair deleted.
C1_Witness ==
    /\ egOp = "full_repair"
    /\ egRet = TRUE
    /\ \E sig \in DOMAIN eg.tables :
           \E i \in ELive(eg.tables[sig]), k \in 1..Len(eg.tables[sig].deleted_rows) :
               LET ri == eg.tables[sig].rows[i + 1]
                   rd == eg.tables[sig].rows[eg.tables[sig].deleted_rows[k] + 1]
               IN  /\ ri # rd
                   /\ ri = Canonicalize(eg.uf, rd, sig).row

\* C2: after full_repair returns, two live rows of one signature whose
\* determinants are equal after canonicalizing through the union-find have
\* union-find-equal roots, and no table holds two live rows with one canonical
\* determinant.
C2_CongruentRowsShareClass ==
    (egOp = "full_repair" /\ ~egHung) =>
        \A sig \in DOMAIN eg.tables :
            \A i \in ELive(eg.tables[sig]), j \in ELive(eg.tables[sig]) :
                LET ri == eg.tables[sig].rows[i + 1]
                    rj == eg.tables[sig].rows[j + 1]
                IN  EDet(sig, Canonicalize(eg.uf, ri, sig).row)
                      = EDet(sig, Canonicalize(eg.uf, rj, sig).row)
                    => /\ Find(eg.uf, EDep(sig, ri)[1]).id = Find(eg.uf, EDep(sig, rj)[1]).id
                       /\ i = j

\* C2 witness: a full_repair has returned after collapsing two congruent rows:
\* a deleted row was stored with another determinant and another root than a
\* live row, and its canonical determinant is the live row's.
C2_Witness ==
    /\ egOp = "full_repair"
    /\ egRet = TRUE
    /\ \E sig \in DOMAIN eg.tables :
           \E i \in ELive(eg.tables[sig]), k \in 1..Len(eg.tables[sig].deleted_rows) :
               LET ri == eg.tables[sig].rows[i + 1]
                   rd == eg.tables[sig].rows[eg.tables[sig].deleted_rows[k] + 1]
               IN  /\ EDet(sig, rd) # EDet(sig, ri)
                   /\ EDet(sig, Canonicalize(eg.uf, rd, sig).row) = EDet(sig, ri)
                   /\ EDep(sig, rd)[1] # EDep(sig, ri)[1]

\* C10: EGraph::insert of a node whose canonical determinant is already stored
\* merges the declared root with the stored root and returns the union-find
\* representative of the merged class; otherwise it returns the newly interned
\* root, the representative of the declared root.
C10_InsertReturnsRepresentative ==
    egOp = "insert" =>
        /\ Find(eg.uf, egRet).id = Find(eg.uf, egRoot).id
        /\ egRet = Find(eg.uf, egRet).id

\* The determinants a and b agree up to the union-find: equal in the columns
\* that hold no class id, find-equal in the others.
DetEquivalent(u, sig, a, b) ==
    \A col \in 1..sig.num_det_cols :
        IF sig.class_id_mask[col] = 1
        THEN Find(u, a[col]).id = Find(u, b[col]).id
        ELSE a[col] = b[col]

\* Each class-id column of the determinant is its own representative.
DetCanonical(u, sig, row) ==
    \A col \in 1..sig.num_det_cols :
        sig.class_id_mask[col] = 1 => Find(u, row[col]).id = row[col]

\* What C11 promises of an insert that follows the earlier row at index i of
\* the table tb: a hit, no new row, and the earlier row's class returned.
InsertReturnsEarlier(tb, i) ==
    /\ egHit'
    /\ Len(eg'.tables[egNode'[1]].rows) = Len(tb.rows)
    /\ Find(eg'.uf, egRet').id = Find(eg'.uf, EDep(egNode'[1], tb.rows[i + 1])[1]).id

\* C11 as stated: an insert of a node whose arguments are union-find-equivalent
\* to those of an earlier inserted node of the same signature returns the earlier
\* node's class and adds no second row.
C11_EquivalentInsertHits ==
    [][egOp' = "insert" =>
          \A i \in 0..(Len(TableOf(eg, egNode'[1]).rows) - 1) :
              DetEquivalent(eg.uf, egNode'[1], TableOf(eg, egNode'[1]).rows[i + 1], egNode'[2])
                  => InsertReturnsEarlier(TableOf(eg, egNode'[1]), i)]_vars

\* C11 amended: the insert hits when the earlier node's row is live and its
\* determinant is canonical under the union-find at the time of the insert; it
\* then returns the root stored in that row, whose class now holds the declared
\* root, and adds no row.
C11_EquivalentInsertHitsCanonicalRow ==
    [][egOp' = "insert" =>
          \A i \in ELive(TableOf(eg, egNode'[1])) :
              (/\ DetCanonical(eg.uf, egNode'[1], TableOf(eg, egNode'[1]).rows[i + 1])
               /\ DetEquivalent(eg.uf, egNode'[1], TableOf(eg, egNode'[1]).rows[i + 1],
                                egNode'[2]))
                  => /\ InsertReturnsEarlier(TableOf(eg, egNode'[1]), i)
                     /\ egRet' = EDep(egNode'[1], TableOf(eg, egNode'[1]).rows[i + 1])[1]
                     /\ Find(eg'.uf, egRet').id = Find(eg'.uf, egRoot').id]_vars

\* C11 witness: an insert hit a live row whose determinant differs from the
\* inserted one and equals its canonical form, and returned another id than the
\* declared root.
C11_Witness ==
    /\ egOp = "insert"
    /\ egHit
    /\ egRet # egRoot
    /\ \E i \in ELive(eg.tables[egNode[1]]) :
           /\ EDet(egNode[1], eg.tables[egNode[1]].rows[i + 1]) # EDet(egNode[1], egNode[2])
           /\ EDet(egNode[1], eg.tables[egNode[1]].rows[i + 1])
                = EDet(egNode[1], Canonicalize(eg.uf, egNode[2], egNode[1]).row)
           /\ egRet = EDep(egNode[1], eg.tables[egNode[1]].rows[i + 1])[1]

\* C12: when full_repair has returned, an immediately following corebuild,
\* rebuild or full_repair returns false.
C12_RepairIsFixpoint ==
    (egPrev # << >> /\ egOp \in {"corebuild", "rebuild", "full_repair"}) =>
        (~egHung /\ egRet = FALSE)

\* C12 witness: a full_repair that changed the e-graph returned, the corebuild
\* after it returned false, and rows and merged classes are there to repair.
C12_Witness ==
    /\ egPrev = <<"full_repair", TRUE>>
    /\ egOp = "corebuild"
    /\ egRet = FALSE
    /\ \E i \in Ids(eg.uf) : Parent(eg.uf, i) # i
    /\ \E sig \in DOMAIN eg.tables : Cardinality(ELive(eg.tables[sig])) >= 2

-----------------------------------------------------------------------------
(* The Table specification: one table driven by insert, delete, the merger, *)
(* rebuild and mark_delta.                                                  *)

TableValues == 0..MaxVal

TableInputRows == [1..(NumDet + NumDep) -> TableValues]

InitTable ==
    /\ IdleTable
    /\ IdleESSA
    /\ IdleLattice
    /\ IdleDomain
    /\ IdleUF
    /\ IdleEGraph
    /\ IdleAI
    /\ IdleMerge
    /\ IdleXlog

TInsert ==
    \E row \in TableInputRows :
        LET r == TableInsert(tbl, row)
        IN  /\ NumRows(r.t) <= MaxRows
            /\ tbl' = r.t
            /\ tblOp' = "insert"
            /\ tblArg' = row
            /\ tblRet' = <<r.row, r.id>>
            /\ UNCHANGED <<ufVars, egVars, aiVars, mgVars, latVars, domVars, esVars, xlVars>>

TDelete ==
    \E row_id \in 0..(NumRows(tbl) - 1) :
        /\ CanDelete(tbl, row_id)
        /\ tbl' = TableDelete(tbl, row_id)
        /\ tblOp' = "delete"
        /\ tblArg' = row_id
        /\ tblRet' = GetRow(tbl, row_id)
        /\ UNCHANGED <<ufVars, egVars, aiVars, mgVars, latVars, domVars, esVars, xlVars>>

TMergerInsert ==
    \E row \in TableInputRows :
        LET r == MergerInsert(tbl, row)
        IN  /\ NumRows(r.t) <= MaxRows
            /\ tbl' = r.t
            /\ tblOp' = "merger_insert"
            /\ tblArg' = row
            /\ tblRet' = r.ret
            /\ UNCHANGED <<ufVars, egVars, aiVars, mgVars, latVars, domVars, esVars, xlVars>>

TRebuild ==
    LET r == Rebuild(tbl, FALSE)
    IN  /\ NumRows(r.t) <= MaxRows
        /\ tbl' = r.t
        /\ tblOp' = "rebuild"
        /\ tblArg' = << >>
        /\ tblRet' = r.changed
        /\ UNCHANGED <<ufVars, egVars, aiVars, mgVars, latVars, domVars, esVars, xlVars>>

TMarkDelta ==
    /\ tbl' = MarkDelta(tbl)
    /\ tblOp' = "mark_delta"
    /\ tblArg' = << >>
    /\ tblRet' = << >>
    /\ UNCHANGED <<ufVars, egVars, aiVars, mgVars, latVars, domVars, esVars, xlVars>>

NextTable == TInsert \/ TDelete \/ TMergerInsert \/ TRebuild \/ TMarkDelta

SpecTable == InitTable /\ [][NextTable]_vars

\* C6: after any sequence of Table::insert, Table::delete, Merger::insert and
\* rebuild calls no two live rows have equal determinant columns.
C6_LiveDeterminantsUnique ==
    \A r1 \in LiveRows(tbl), r2 \in LiveRows(tbl) :
        DetOf(GetRow(tbl, r1)) = DetOf(GetRow(tbl, r2)) => r1 = r2

\* C6 witness: a rebuild has rewritten a row: two rows are live, and one of them
\* is the canonical form of a row the rebuild deleted.
C6_Witness ==
    /\ tblOp = "rebuild"
    /\ tblRet = TRUE
    /\ Cardinality(LiveRows(tbl)) >= 2
    /\ \E r1 \in LiveRows(tbl), r2 \in tbl.deleted_rows :
           /\ GetRow(tbl, r1) # GetRow(tbl, r2)
           /\ GetRow(tbl, r1) = CanonFn(GetRow(tbl, r2))

\* The live rows of t whose determinant is that of row.
LiveWithDet(t, row) ==
    {r \in LiveRows(t) : DetOf(GetRow(t, r)) = DetOf(row)}

\* C23: Table::insert of a row whose determinant is that of a live row returns
\* the stored row with its own dependent columns and its row id, and leaves
\* the table as it was: nothing appended, index and stored dependent unchanged.
C23_InsertHitChangesNothing ==
    [][(tblOp' = "insert" /\ LiveWithDet(tbl, tblArg') # {}) =>
          /\ tbl' = tbl
          /\ \E r \in LiveWithDet(tbl, tblArg') : tblRet' = <<GetRow(tbl, r), r>>]_vars

\* An insert found its determinant stored with another dependent and returned
\* the stored row.
C23_Witness ==
    /\ tblOp = "insert"
    /\ DetOf(tblArg) = DetOf(tblRet[1])
    /\ DepOf(tblArg) # DepOf(tblRet[1])
    /\ tblRet[2] \in LiveRows(tbl)
    /\ GetRow(tbl, tblRet[2]) = tblRet[1]

\* dst[dep] of the merge function of tests::simple_merge, folded over the
\* stored dependent and the new one.
MergedDep(stored, row) == DepOf(MinMergeFn(row, stored, row))

\* A Merger::insert step with the determinant of the row not stored: the row
\* is appended as it is.
MergerInsertMiss ==
    LiveWithDet(tbl, tblArg') = {} =>
        /\ NumRows(tbl') = NumRows(tbl) + 1
        /\ tbl'.deleted_rows = tbl.deleted_rows
        /\ LiveWithDet(tbl', tblArg') = {NumRows(tbl)}
        /\ GetRow(tbl', NumRows(tbl)) = tblArg'

\* A Merger::insert step with the determinant stored in row r: the table is
\* untouched when the merge gives the stored dependent; otherwise r is deleted
\* and the merged row appended under a new row id.
MergerInsertHit ==
    \A r \in LiveWithDet(tbl, tblArg') :
        IF MergedDep(GetRow(tbl, r), tblArg') = DepOf(GetRow(tbl, r))
        THEN tbl' = tbl
        ELSE /\ NumRows(tbl') = NumRows(tbl) + 1
             /\ tbl'.deleted_rows = tbl.deleted_rows \cup {r}
             /\ LiveWithDet(tbl', tblArg') = {NumRows(tbl)}
             /\ GetRow(tbl', NumRows(tbl)) =
                    DetOf(tblArg') \o MergedDep(GetRow(tbl, r), tblArg')

\* C24: Merger::insert keeps one live row per determinant, its dependent the
\* merge function applied to the stored dependent and the inserted one.  When
\* the merged dependent is the stored one the table is untouched; when it
\* differs the old row is deleted and the merged row appended under a new id.
C24_MergerInsertFolds ==
    [][tblOp' = "merger_insert" =>
          /\ MergerInsertMiss
          /\ MergerInsertHit
          /\ \A i \in 1..NumRows(tbl) : tbl'.rows[i] = tbl.rows[i]]_vars

\* A Merger::insert replaced a stored row by the merged one under a new id.
C24_Witness ==
    /\ tblOp = "merger_insert"
    /\ \E r \in tbl.deleted_rows :
           /\ DetOf(GetRow(tbl, r)) = DetOf(tblArg)
           /\ NumRows(tbl) - 1 \in LiveWithDet(tbl, tblArg)
           /\ DepOf(GetRow(tbl, NumRows(tbl) - 1)) = DepOf(tblArg)
           /\ DepOf(GetRow(tbl, r)) # DepOf(tblArg)

\* rows(false) yields the live row ids, each once, ascending.
RowsYieldsLive == TableRows(tbl, FALSE) = SortedSeq(LiveRows(tbl))

\* No call removes or rewrites a stored row or revives a deleted id, and an
\* insert of a determinant that is not live appends under the next row id.
RowIdsNeverReused ==
    /\ NumRows(tbl') >= NumRows(tbl)
    /\ \A i \in 1..NumRows(tbl) : tbl'.rows[i] = tbl.rows[i]
    /\ tbl.deleted_rows \subseteq tbl'.deleted_rows
    /\ (tblOp' = "insert" /\ LiveWithDet(tbl, tblArg') = {}) =>
           /\ tblRet' = <<tblArg', NumRows(tbl)>>
           /\ NumRows(tbl') = NumRows(tbl) + 1
           /\ NumRows(tbl) \in LiveRows(tbl')

\* C26: rows(false) yields exactly the live rows, each once, in increasing
\* row-id order, whatever ids are deleted; deletion is logical and row ids
\* are never reused: re-inserting a deleted determinant appends a row under a
\* fresh id.
C26_RowsYieldsLiveRowsInOrder ==
    []RowsYieldsLive /\ [][RowIdsNeverReused]_vars

\* Rows 0 and 1 are deleted, and the determinant of one of them was inserted
\* again and lives in row 2, the only row rows(false) yields.
C26_Witness ==
    /\ tbl.deleted_rows = {0, 1}
    /\ NumRows(tbl) = 3
    /\ DetOf(GetRow(tbl, 2)) = DetOf(GetRow(tbl, 0))
    /\ tblOp = "insert"
    /\ tblRet[2] = 2
    /\ TableRows(tbl, FALSE) = <<2>>

\* rows(true) yields the live row ids from the delta marker on, ascending.
DeltaRowsYieldsLive ==
    TableRows(tbl, TRUE) = SortedSeq({r \in LiveRows(tbl) : r >= tbl.delta_marker})

\* The delta marker is the number of rows present at the last mark_delta
\* call, 0 before the first, and mark_delta leaves rows(false) as it was.
MarkerIsRowCountAtMark ==
    IF tblOp' = "mark_delta"
    THEN /\ tbl'.delta_marker = NumRows(tbl)
         /\ TableRows(tbl', FALSE) = TableRows(tbl, FALSE)
    ELSE tbl'.delta_marker = tbl.delta_marker

\* C27: rows(true) yields exactly the live rows whose id is at least the
\* number of rows present at the last mark_delta call (all live rows before
\* the first call), also when rows before or after the marker are deleted;
\* rows(false) is unaffected by mark_delta.
C27_DeltaRowsStartAtMarker ==
    [](DeltaRowsYieldsLive /\ (tblOp = "new" => tbl.delta_marker = 0))
        /\ [][MarkerIsRowCountAtMark]_vars

\* mark_delta was called with one row stored; since then a row before the
\* marker and a row after it were deleted, and rows(true) yields row 1 only.
C27_Witness ==
    /\ tbl.delta_marker = 1
    /\ tbl.deleted_rows = {0, 2}
    /\ TableRows(tbl, TRUE) = <<1>>
    /\ TableRows(tbl, FALSE) = <<1>>

-----------------------------------------------------------------------------
(* The Rebuild specification: a table of class ids and a union-find, driven *)
(* by Table::insert, UnionFind::merge and rebuild with the closures of      *)
(* tests::simple_rebuild.                                                   *)

\* The class ids of the union-find, made before the first insert.
RbIds == 3

\* Table::insert is not called once the row buffer holds RbMaxRows rows.
RbMaxRows == 3

InitRebuild ==
    /\ uf = NewAllNotEquals(RbIds)
    /\ ufOp = "new"
    /\ ufArgs = << >>
    /\ ufRet = 0
    /\ ufPrev = << >>
    /\ IdleTable
    /\ IdleESSA
    /\ IdleLattice
    /\ IdleDomain
    /\ IdleEGraph
    /\ IdleAI
    /\ IdleMerge
    /\ IdleXlog

RbInsert ==
    /\ NumRows(tbl) < RbMaxRows
    /\ \E row \in [1..(NumDet + NumDep) -> Ids(uf)] :
           \E r \in {TableInsert(tbl, row)} :
               /\ tbl' = r.t
               /\ tblOp' = "insert"
               /\ tblArg' = row
               /\ tblRet' = <<r.row, r.id>>
    /\ UNCHANGED <<ufVars, egVars, aiVars, mgVars, latVars, domVars, esVars, xlVars>>

RbMerge ==
    /\ \E a \in Ids(uf), b \in Ids(uf) :
           \E r \in {Merge(uf, a, b)} :
               /\ uf' = r.uf
               /\ ufRet' = r.id
               /\ ufArgs' = <<a, b>>
    /\ ufOp' = "merge"
    /\ ufPrev' = uf
    /\ UNCHANGED <<tblVars, egVars, aiVars, mgVars, latVars, domVars, esVars, xlVars>>

RbRebuild ==
    /\ \E r \in {UfRebuild(tbl, uf, FALSE)} :
           /\ tbl' = r.t
           /\ uf' = r.uf
           /\ tblRet' = r.changed
    /\ tblOp' = "rebuild"
    /\ tblArg' = << >>
    /\ ufOp' = "rebuild"
    /\ ufArgs' = << >>
    /\ ufRet' = 0
    /\ ufPrev' = uf
    /\ UNCHANGED <<egVars, aiVars, mgVars, latVars, domVars, esVars, xlVars>>

NextRebuild == RbInsert \/ RbMerge \/ RbRebuild

SpecRebuild == InitRebuild /\ [][NextRebuild]_vars

\* The root of the class of id: the id of the class that is its own parent.
RootOf(u, id) == CHOOSE r \in ClassOf(u, id) : Parent(u, r) = r

\* The canonizer maps the row to itself.
RowIsCanonical(u, row) == \A i \in 1..Len(row) : Parent(u, row[i]) = row[i]

\* C25: rebuild with a union-find canonizer and a union-find merger returns
\* with every live row mapped to itself by the canonizer; rows whose canonical
\* determinants coincide are collapsed into one live row and their dependents
\* are merged in the union-find; it returns true iff a row was rewritten.
C25_RebuildCanonicalizes ==
    [][(tblOp' = "rebuild" /\ ufOp' = "rebuild") =>
          /\ \A r \in LiveRows(tbl') : RowIsCanonical(uf', GetRow(tbl', r))
          /\ \A r1, r2 \in LiveRows(tbl') :
                 DetOf(GetRow(tbl', r1)) = DetOf(GetRow(tbl', r2)) => r1 = r2
          /\ \A r \in LiveRows(tbl) :
                 \E r2 \in LiveRows(tbl') :
                     /\ GetRow(tbl', r2)[1] = RootOf(uf', GetRow(tbl, r)[1])
                     /\ GetRow(tbl', r2)[2] = RootOf(uf', GetRow(tbl, r)[2])
          /\ \A r1, r2 \in LiveRows(tbl) :
                 SameClass(uf', GetRow(tbl, r1)[1], GetRow(tbl, r2)[1]) =>
                     SameClass(uf', GetRow(tbl, r1)[2], GetRow(tbl, r2)[2])
          /\ tblRet' = (\E r \in LiveRows(tbl) : ~RowIsCanonical(uf, GetRow(tbl, r)))]_vars

\* A rebuild collapsed two rows into one and merged their dependents, which
\* were in different classes before.
C25_Witness ==
    /\ tblOp = "rebuild"
    /\ tblRet = TRUE
    /\ Cardinality(LiveRows(tbl)) = 1
    /\ \E r1, r2 \in tbl.deleted_rows :
           /\ r1 # r2
           /\ ~SameClass(ufPrev, GetRow(tbl, r1)[2], GetRow(tbl, r2)[2])
           /\ SameClass(uf, GetRow(tbl, r1)[2], GetRow(tbl, r2)[2])

-----------------------------------------------------------------------------
(* The UnionFind specification: a union-find built by one of the three     *)
(* constructors and driven by makeset, find and merge.                     *)

InitUF ==
    /\ \E n \in 0..MaxIds : uf \in {UFNew, NewAllNotEquals(n), NewAllEquals(n)}
    /\ ufOp = "new"
    /\ ufArgs = << >>
    /\ ufRet = 0
    /\ ufPrev = << >>
    /\ IdleTable
    /\ IdleESSA
    /\ IdleLattice
    /\ IdleDomain
    /\ IdleEGraph
    /\ IdleAI
    /\ IdleMerge
    /\ IdleXlog

UFMakeset ==
    /\ Len(uf) < MaxIds
    /\ LET r == Makeset(uf)
       IN  /\ uf' = r.uf
           /\ ufRet' = r.id
    /\ ufOp' = "makeset"
    /\ ufArgs' = << >>
    /\ ufPrev' = uf
    /\ UNCHANGED <<tblVars, egVars, aiVars, mgVars, latVars, domVars, esVars, xlVars>>

UFFind ==
    \E x \in Ids(uf) :
        /\ LET r == Find(uf, x)
           IN  /\ uf' = r.uf
               /\ ufRet' = r.id
        /\ ufOp' = "find"
        /\ ufArgs' = <<x>>
        /\ ufPrev' = uf
        /\ UNCHANGED <<tblVars, egVars, aiVars, mgVars, latVars, domVars, esVars, xlVars>>

UFMerge ==
    \E a \in Ids(uf), b \in Ids(uf) :
        /\ LET r == Merge(uf, a, b)
           IN  /\ uf' = r.uf
               /\ ufRet' = r.id
        /\ ufOp' = "merge"
        /\ ufArgs' = <<a, b>>
        /\ ufPrev' = uf
        /\ UNCHANGED <<tblVars, egVars, aiVars, mgVars, latVars, domVars, esVars, xlVars>>

NextUF == UFMakeset \/ UFFind \/ UFMerge

SpecUF == InitUF /\ [][NextUF]_vars

-----------------------------------------------------------------------------
(* Claims about the union-find.                                            *)

\* C3: in every reachable UnionFind state every id x has parent[x] <= x, find(x)
\* (with its path compression) returns an id <= x, and that id is the smallest
\* id of x's class.
C3_ParentLeqAndFindIsMin ==
    \A x \in Ids(uf) :
        /\ Parent(uf, x) <= x
        /\ Find(uf, x).id <= x
        /\ Find(uf, x).id = SetMin(ClassOf(uf, x))
        /\ \A y \in Ids(uf) : Parent(Find(uf, x).uf, y) <= y

\* C3 witness: a find has just compressed a chain of length two or more, in a
\* union-find that merge built.
C3_Witness ==
    /\ ufOp = "find"
    /\ uf # ufPrev
    /\ \E x \in Ids(uf) : Parent(ufPrev, x) # x /\ Parent(ufPrev, Parent(ufPrev, x)) # Parent(ufPrev, x)

\* C4 (as claimed): merge(a, b) returns min(find(a), find(b)) as evaluated just
\* before the call.
C4_MergeReturnsMinRoot ==
    ufOp = "merge" =>
        ufRet = Min2(Find(ufPrev, ufArgs[1]).id, Find(ufPrev, ufArgs[2]).id)

\* C5: merge(a, b) unites exactly the classes of a and b: afterwards find(a) =
\* find(b), and two ids are in one class afterwards iff they were before or one
\* was in a's class and the other in b's.
C5_MergeUnitesExactly ==
    ufOp = "merge" =>
        LET a == ufArgs[1]
            b == ufArgs[2]
        IN  /\ Find(uf, a).id = Find(uf, b).id
            /\ \A u \in Ids(uf), v \in Ids(uf) :
                   (Find(uf, u).id = Find(uf, v).id)
                     <=> \/ SameClass(ufPrev, u, v)
                         \/ SameClass(ufPrev, u, a) /\ SameClass(ufPrev, v, b)
                         \/ SameClass(ufPrev, u, b) /\ SameClass(ufPrev, v, a)

\* C5 witness: a merge of two different classes, each with two or more ids, while
\* a third class exists.
C5_Witness ==
    /\ ufOp = "merge"
    /\ ~SameClass(ufPrev, ufArgs[1], ufArgs[2])
    /\ Cardinality(ClassOf(ufPrev, ufArgs[1])) >= 2
    /\ Cardinality(ClassOf(ufPrev, ufArgs[2])) >= 2
    /\ \E z \in Ids(uf) : ~SameClass(uf, z, ufArgs[1])

-----------------------------------------------------------------------------
(* The interpreter specification: ai_func on one of Functions, with a         *)
(* LatticeDomain over Interval or over Concrete.  Symbols x, y, z are 0, 1, 2.*)

\* The functions interpreted, each a FunctionAST [params, block].  The first
\* five are those of the tests of imp.rs.
Functions == <<
    \* fn basic(x, y) { if 0 { return (x < y) * 5; } else { return (y > x) - 3; } }
    [params |-> <<0, 1>>,
     block |-> << <<"IfElse", Num(0),
                     << <<"Return", <<"Multiply", <<"Less", Var(0), Var(1)>>, Num(5)>> >> >>,
                     << << <<"Return", <<"Subtract", <<"Greater", Var(1), Var(0)>>, Num(3)>> >> >> >> >> >>],
    \* fn basic() { x = 10; while x { x = x / 2; } return x; }
    [params |-> << >>,
     block |-> << <<"Assign", 0, Num(10)>>,
                  <<"While", Var(0), << <<"Assign", 0, <<"Divide", Var(0), Num(2)>> >> >> >>,
                  <<"Return", Var(0)>> >>],
    \* fn basic(x) { y = x; while x { x = x - 1; y = y - 1; } return y + x; }
    [params |-> <<0>>,
     block |-> << <<"Assign", 1, Var(0)>>,
                  <<"While", Var(0), << <<"Assign", 0, <<"Subtract", Var(0), Num(1)>> >>,
                                        <<"Assign", 1, <<"Subtract", Var(1), Num(1)>> >> >> >>,
                  <<"Return", <<"Add", Var(1), Var(0)>> >> >>],
    \* fn basic(x, y) { while x < 100 { x = x + 7; }
    \*                  if y { x = x + 17; } else { x = 120; } return x; }
    [params |-> <<0, 1>>,
     block |-> << <<"While", <<"Less", Var(0), Num(100)>>,
                    << <<"Assign", 0, <<"Add", Var(0), Num(7)>> >> >> >>,
                  <<"IfElse", Var(1),
                    << <<"Assign", 0, <<"Add", Var(0), Num(17)>> >> >>,
                    << << <<"Assign", 0, Num(120)>> >> >> >>,
                  <<"Return", Var(0)>> >>],
    \* fn basic(x) { if x { return 10 + 5; } else { return 7 + 2; } }
    [params |-> <<0>>,
     block |-> << <<"IfElse", Var(0),
                    << <<"Return", <<"Add", Num(10), Num(5)>> >> >>,
                    << << <<"Return", <<"Add", Num(7), Num(2)>> >> >> >> >> >>],
    \* fn f() { x = 1; while 1 { x = 2 / x; } return x; }
    [params |-> << >>,
     block |-> << <<"Assign", 0, Num(1)>>,
                  <<"While", Num(1), << <<"Assign", 0, <<"Divide", Num(2), Var(0)>> >> >> >>,
                  <<"Return", Var(0)>> >>],
    \* fn f() { x = 0; y = 0; z = 0;
    \*          while 1 { z = z + (y > 100); y = y + (x > 100); x = x + 1; } return z; }
    [params |-> << >>,
     block |-> << <<"Assign", 0, Num(0)>>, <<"Assign", 1, Num(0)>>, <<"Assign", 2, Num(0)>>,
                  <<"While", Num(1),
                    << <<"Assign", 2, <<"Add", Var(2), <<"Greater", Var(1), Num(100)>> >> >>,
                       <<"Assign", 1, <<"Add", Var(1), <<"Greater", Var(0), Num(100)>> >> >>,
                       <<"Assign", 0, <<"Add", Var(0), Num(1)>> >> >> >>,
                  <<"Return", Var(2)>> >>],
    \* fn f() { x = 0; while 1 { x = 1 - x; } return x; }
    [params |-> << >>,
     block |-> << <<"Assign", 0, Num(0)>>,
                  <<"While", Num(1), << <<"Assign", 0, <<"Subtract", Num(1), Var(0)>> >> >> >>,
                  <<"Return", Var(0)>> >>],
    \* fn f(x) { { y = x / 0; } if x { y = 1; } while y { return y; } return 0; }
    [params |-> <<0>>,
     block |-> << <<"Block", << <<"Assign", 1, <<"Divide", Var(0), Num(0)>> >> >> >>,
                  <<"IfElse", Var(0), << <<"Assign", 1, Num(1)>> >>, << >> >>,
                  <<"While", Var(1), << <<"Return", Var(1)>> >> >>,
                  <<"Return", Num(0)>> >>],
    \* fn f(x) { y = 0; while y < 2 { if x { return y; } y = y + 1; } return x; }
    [params |-> <<0>>,
     block |-> << <<"Assign", 1, Num(0)>>,
                  <<"While", <<"Less", Var(1), Num(2)>>,
                    << <<"IfElse", Var(0), << <<"Return", Var(1)>> >>, << >> >>,
                       <<"Assign", 1, <<"Add", Var(1), Num(1)>> >> >> >>,
                  <<"Return", Var(0)>> >>]
>>

\* What param_abstractions may hold for a parameter: nothing, or one of two values.
ParamAbstractions(dom) ==
    IF dom = "interval"
    THEN {<< >>, <<IntervalOf(5, 5)>>, <<IntervalOf(0, 3)>>}
    ELSE {<< >>, <<ConcreteValue(5)>>, <<ConcreteTop>>}

\* The loop of ai_func over the parameters; abstractions[i] is what
\* param_abstractions.get returns for the parameter at position i.
RECURSIVE AssignParams(_, _, _, _, _)
AssignParams(dom, ad, params, abstractions, i) ==
    IF i > Len(params) THEN ad
    ELSE AssignParams(dom,
                      Assign(ad, params[i],
                             IF Len(abstractions[i]) > 0 THEN abstractions[i][1]
                             ELSE LatticeBottom(dom)),
                      params, abstractions, i + 1)

\* The functions interpreted under a domain.  Under Concrete the loop of the
\* seventh function counts x through all of i32, one loop-head state per value:
\* it is interpreted under Interval only.
FunctionsOf(dom) ==
    IF dom = "interval" THEN 1..Len(Functions) ELSE (1..Len(Functions)) \ {7}

InitAI ==
    /\ aiDom \in {"interval", "concrete"}
    /\ aiFn \in FunctionsOf(aiDom)
    /\ aiStatus = "new"
    /\ aiAd = <<LatticeDomainNew>>
    /\ aiStack = << >>
    /\ aiUid = 0
    /\ aiFinished = LatticeDomainNew
    /\ aiReturns = << >>
    /\ IdleUF
    /\ IdleTable
    /\ IdleESSA
    /\ IdleLattice
    /\ IdleDomain
    /\ IdleEGraph
    /\ IdleMerge
    /\ IdleXlog

\* ai_func up to its call of ai_block.
AiFunc ==
    /\ aiStatus = "new"
    /\ \E abstractions \in [1..Len(Functions[aiFn].params) -> ParamAbstractions(aiDom)] :
           aiAd' = <<AssignParams(aiDom, aiAd[1], Functions[aiFn].params, abstractions, 1)>>
    /\ aiStack' = <<BlockFrame(Functions[aiFn].block)>>
    /\ aiStatus' = "running"
    /\ aiUid' = 0
    /\ UNCHANGED <<aiDom, aiFn, aiFinished, aiReturns>>
    /\ UNCHANGED <<ufVars, tblVars, egVars, mgVars, latVars, domVars, esVars, xlVars>>

\* ai_block is about to call ai_stmt on a statement of the given constructor.
AtStmt(constructor) ==
    /\ aiStatus = "running"
    /\ Len(aiStack) > 0
    /\ Head(aiStack).k = "block"
    /\ Len(Head(aiStack).stmts) > 0
    /\ Len(aiAd) > 0
    /\ Head(Head(aiStack).stmts)[1] = constructor

\* The statement ai_stmt is called on.
Stmt == Head(Head(aiStack).stmts)

\* The stack once ai_stmt has taken that statement.
AfterStmt == <<BlockFrame(Tail(Head(aiStack).stmts))>> \o Tail(aiStack)

\* *unique_id = *unique_id + 1
NextUid == Min2(aiUid + 1, MaxUid)

\* ai_stmt (Block): ai_block on the inner block.
AiStmtBlock ==
    /\ AtStmt("Block")
    /\ aiUid' = NextUid
    /\ aiStack' = <<BlockFrame(Stmt[2])>> \o AfterStmt
    /\ UNCHANGED <<aiDom, aiFn, aiStatus, aiAd, aiFinished, aiReturns>>
    /\ UNCHANGED <<ufVars, tblVars, egVars, mgVars, latVars, domVars, esVars, xlVars>>

\* ai_stmt (Assign)
AiStmtAssign ==
    /\ AtStmt("Assign")
    /\ aiUid' = NextUid
    /\ \E val \in {ForwardTransfer(aiDom, Stmt[3], aiAd[1])} :
           IF Len(val) = 0
           THEN /\ aiStatus' = "panic"
                /\ UNCHANGED <<aiAd, aiStack>>
           ELSE /\ aiAd' = <<Assign(aiAd[1], Stmt[2], val[1])>>
                /\ aiStack' = AfterStmt
                /\ UNCHANGED aiStatus
    /\ UNCHANGED <<aiDom, aiFn, aiFinished, aiReturns>>
    /\ UNCHANGED <<ufVars, tblVars, egVars, mgVars, latVars, domVars, esVars, xlVars>>

\* ai_stmt (Return): finish stores the value under unique_id; the result is None.
AiStmtReturn ==
    /\ AtStmt("Return")
    /\ aiUid' = NextUid
    /\ \E val \in {ForwardTransfer(aiDom, Stmt[2], aiAd[1])} :
           IF Len(val) = 0
           THEN /\ aiStatus' = "panic"
                /\ UNCHANGED <<aiAd, aiStack, aiFinished, aiReturns>>
           ELSE /\ aiFinished' = Assign(aiFinished, NextUid, val[1])
                /\ aiReturns' = Assign(aiReturns, NextUid, Stmt)
                /\ aiAd' = << >>
                /\ aiStack' = AfterStmt
                /\ UNCHANGED aiStatus
    /\ UNCHANGED <<aiDom, aiFn>>
    /\ UNCHANGED <<ufVars, tblVars, egVars, mgVars, latVars, domVars, esVars, xlVars>>

\* ai_stmt (IfElse) up to the first call of ai_block, or to its end when no
\* block is interpreted.
AiStmtIfElse ==
    /\ AtStmt("IfElse")
    /\ aiUid' = NextUid
    /\ \E cond \in {ForwardTransfer(aiDom, Stmt[2], aiAd[1])} :
           IF Len(cond) = 0
           THEN /\ aiStatus' = "panic"
                /\ UNCHANGED <<aiAd, aiStack>>
           ELSE \E b \in {Branch(aiDom, aiAd[1], cond[1])} :
                \E r \in {IF Len(b.t) > 0
                          THEN [ad |-> b.t,
                                stack |-> <<BlockFrame(Stmt[3]),
                                            IfTrueFrame(b.f, Stmt[4], NextUid)>> \o AfterStmt]
                          ELSE IfElseFalseSide(aiDom, b.t, b.f, Stmt[4], NextUid, AfterStmt)} :
                    /\ aiAd' = r.ad
                    /\ aiStack' = r.stack
                    /\ UNCHANGED aiStatus
    /\ UNCHANGED <<aiDom, aiFn, aiFinished, aiReturns>>
    /\ UNCHANGED <<ufVars, tblVars, egVars, mgVars, latVars, domVars, esVars, xlVars>>

\* ai_stmt (IfElse) once ai_block returned for the true block.
AiIfTrueDone ==
    /\ aiStatus = "running"
    /\ Len(aiStack) > 0
    /\ Head(aiStack).k = "if_true"
    /\ \E r \in {IfElseFalseSide(aiDom, aiAd, Head(aiStack).false_ad,
                                 Head(aiStack).false_block,
                                 Head(aiStack).unique_id_fix, Tail(aiStack))} :
           /\ aiAd' = r.ad
           /\ aiStack' = r.stack
    /\ UNCHANGED <<aiDom, aiFn, aiStatus, aiUid, aiFinished, aiReturns>>
    /\ UNCHANGED <<ufVars, tblVars, egVars, mgVars, latVars, domVars, esVars, xlVars>>

\* ai_stmt (IfElse) once ai_block returned for the false block.
AiIfFalseDone ==
    /\ aiStatus = "running"
    /\ Len(aiStack) > 0
    /\ Head(aiStack).k = "if_false"
    /\ aiAd' = MatchIfElse(aiDom, Head(aiStack).true_ad, aiAd)
    /\ aiStack' = Tail(aiStack)
    /\ UNCHANGED <<aiDom, aiFn, aiStatus, aiUid, aiFinished, aiReturns>>
    /\ UNCHANGED <<ufVars, tblVars, egVars, mgVars, latVars, domVars, esVars, xlVars>>

\* ai_stmt (While) up to the loop: let init = ad.clone().
AiStmtWhile ==
    /\ AtStmt("While")
    /\ aiUid' = NextUid
    /\ aiStack' = <<WhileFrame(Stmt[2], Stmt[3], aiAd[1], NextUid)>> \o AfterStmt
    /\ UNCHANGED <<aiDom, aiFn, aiStatus, aiAd, aiFinished, aiReturns>>
    /\ UNCHANGED <<ufVars, tblVars, egVars, mgVars, latVars, domVars, esVars, xlVars>>

\* The loop of ai_stmt (While) from its top to the call of ai_block on the
\* body, or to break exit when the true side is None.
AiWhilePass ==
    /\ aiStatus = "running"
    /\ Len(aiStack) > 0
    /\ Head(aiStack).k = "while"
    /\ Head(aiStack).phase = "head"
    /\ \E cond \in {ForwardTransfer(aiDom, Head(aiStack).expr, Head(aiStack).ad)} :
           IF Len(cond) = 0
           THEN /\ aiStatus' = "panic"
                /\ UNCHANGED <<aiAd, aiStack>>
           ELSE \E b \in {Branch(aiDom, Head(aiStack).ad, cond[1])} :
                    /\ UNCHANGED aiStatus
                    /\ IF Len(b.t) = 0
                       THEN /\ aiAd' = b.f
                            /\ aiStack' = Tail(aiStack)
                       ELSE /\ aiAd' = b.t
                            /\ aiStack' =
                                 <<BlockFrame(Head(aiStack).block),
                                   [Head(aiStack) EXCEPT
                                       !.phase = "body", !.exit = b.f,
                                       !.passes = Min2(@ + 1, MaxPasses)]>>
                                 \o Tail(aiStack)
    /\ UNCHANGED <<aiDom, aiFn, aiUid, aiFinished, aiReturns>>
    /\ UNCHANGED <<ufVars, tblVars, egVars, mgVars, latVars, domVars, esVars, xlVars>>

\* The loop of ai_stmt (While) once ai_block returned for the body: break exit
\* when the body returned None or the widened state equals ad, else ad = widened.
AiWhileBodyDone ==
    /\ aiStatus = "running"
    /\ Len(aiStack) > 0
    /\ Head(aiStack).k = "while"
    /\ Head(aiStack).phase = "body"
    /\ IF Len(aiAd) = 0
       THEN /\ aiAd' = Head(aiStack).exit
            /\ aiStack' = Tail(aiStack)
       ELSE \E widened \in {LatticeWiden(aiDom, Head(aiStack).init, aiAd[1])} :
                IF Head(aiStack).ad = widened
                THEN /\ aiAd' = Head(aiStack).exit
                     /\ aiStack' = Tail(aiStack)
                ELSE /\ aiAd' = <<widened>>
                     /\ aiStack' = <<[Head(aiStack) EXCEPT !.phase = "head", !.ad = widened,
                                                           !.bottom = aiAd]>>
                                   \o Tail(aiStack)
    /\ UNCHANGED <<aiDom, aiFn, aiStatus, aiUid, aiFinished, aiReturns>>
    /\ UNCHANGED <<ufVars, tblVars, egVars, mgVars, latVars, domVars, esVars, xlVars>>

\* ai_block returns: its statements are exhausted, or ai_stmt returned None.
AiBlockDone ==
    /\ aiStatus = "running"
    /\ Len(aiStack) > 0
    /\ Head(aiStack).k = "block"
    /\ (Len(Head(aiStack).stmts) = 0 \/ Len(aiAd) = 0)
    /\ aiStack' = Tail(aiStack)
    /\ UNCHANGED <<aiDom, aiFn, aiStatus, aiAd, aiUid, aiFinished, aiReturns>>
    /\ UNCHANGED <<ufVars, tblVars, egVars, mgVars, latVars, domVars, esVars, xlVars>>

\* ai_func returns.
AiFuncDone ==
    /\ aiStatus = "running"
    /\ Len(aiStack) = 0
    /\ aiStatus' = "done"
    /\ UNCHANGED <<aiDom, aiFn, aiAd, aiStack, aiUid, aiFinished, aiReturns>>
    /\ UNCHANGED <<ufVars, tblVars, egVars, mgVars, latVars, domVars, esVars, xlVars>>

NextAI ==
    \/ AiFunc
    \/ AiStmtBlock
    \/ AiStmtAssign
    \/ AiStmtReturn
    \/ AiStmtIfElse
    \/ AiIfTrueDone
    \/ AiIfFalseDone
    \/ AiStmtWhile
    \/ AiWhilePass
    \/ AiWhileBodyDone
    \/ AiBlockDone
    \/ AiFuncDone

\* The interpreter is one sequential program: it takes its next step whenever
\* it has one.
SpecAI == InitAI /\ [][NextAI]_vars /\ WF_vars(NextAI)

\* The while loops in progress.
WhileFrames == {i \in 1..Len(aiStack) : aiStack[i].k = "while"}

\* C7: with the interval domain the interpreter terminates, and no while loop
\* runs its loop more than 3 times per entry into the loop.
C7_IntervalLoopAtMostThreePasses ==
    aiDom = "interval" => \A i \in WhileFrames : aiStack[i].passes <= 3

\* C8: with the Concrete domain the interpreter terminates for every function:
\* the loop-head state of a while loop becomes stationary.
C8_ConcreteInterpreterTerminates ==
    (aiDom = "concrete" /\ aiStatus = "running") ~> (aiStatus = "done")

\* ai_stmt (IfElse) has just called ai_block on the true block.
ThenBlockEntered ==
    /\ Len(aiStack') = Len(aiStack) + 2
    /\ aiStack'[2].k = "if_true"

\* ai_stmt (IfElse) has just called ai_block on the false block.
ElseBlockEntered ==
    /\ Len(aiStack') = Len(aiStack) + 2
    /\ aiStack'[2].k = "if_false"

\* The value the condition of the if-else at hand evaluates to, as an Option.
IfElseCond == ForwardTransfer(aiDom, Stmt[2], aiAd[1])

\* A step of ai_stmt (IfElse) with a condition known false: the true block
\* is not entered, and the statement's result is the false block's, or the
\* incoming state when there is no false block.
KnownFalseSkipsThen ==
    (AtStmt("IfElse") /\ aiUid' # aiUid /\ IfElseCond # << >>
     /\ IsKnownFalse(aiDom, IfElseCond[1])) =>
        /\ ~ThenBlockEntered
        /\ aiFinished' = aiFinished
        /\ IF Len(Stmt[4]) > 0
           THEN ElseBlockEntered /\ aiStack'[2].true_ad = << >> /\ aiAd' = aiAd
           ELSE aiStack' = AfterStmt /\ aiAd' = aiAd

\* The same step with a condition known true: the true block is entered
\* with no false state left to interpret the false block with.
KnownTrueSkipsElse ==
    (AtStmt("IfElse") /\ aiUid' # aiUid /\ IfElseCond # << >>
     /\ IsKnownTrue(aiDom, IfElseCond[1])) =>
        /\ ThenBlockEntered
        /\ aiStack'[2].false_ad = << >>
        /\ aiFinished' = aiFinished
        /\ aiAd' = aiAd

\* finished.values().reduce(|a, b| a.join(&b)), as an Option.
RECURSIVE ReduceJoin(_, _, _, _)
ReduceJoin(dom, finished, keys, acc) ==
    IF keys = << >> THEN acc
    ELSE ReduceJoin(dom, finished, Tail(keys),
                    IF acc = << >> THEN <<finished[Head(keys)]>>
                    ELSE <<ValueJoin(dom, acc[1], finished[Head(keys)])>>)

\* The last return of tests::abstract_interpret1 with both parameters
\* unconstrained: the finished values join to [-3, -2].
BasicIfElseFinished ==
    (AtStmt("Return") /\ aiUid' # aiUid /\ aiFn = 1 /\ aiDom = "interval"
     /\ aiAd[1][0] = IntervalBottom /\ aiAd[1][1] = IntervalBottom) =>
        ReduceJoin(aiDom, aiFinished', BTreeIter(aiFinished'), << >>) = <<IntervalOf(-3, -2)>>

\* C20: when the condition of an if-else is known false the then-block is
\* not interpreted, no return inside it writes to the finished sink, and the
\* statement's result is the else-block's; symmetrically for known true.
\* For tests::abstract_interpret1 with unconstrained interval parameters the
\* finished values join to [-3, -2].
C20_KnownConditionSkipsOtherBlock ==
    [][KnownFalseSkipsThen /\ KnownTrueSkipsElse /\ BasicIfElseFinished]_vars

\* A step in which ai_stmt (While) breaks out of its loop.
WhileLeft ==
    /\ aiStatus = "running"
    /\ Len(aiStack) > 0
    /\ Head(aiStack).k = "while"
    /\ aiStack' = Tail(aiStack)

\* The state the body returned in the last iteration it completed, as an
\* Option: the one just returned, or the one kept from the iteration before.
LastBodyExit ==
    IF Head(aiStack).phase = "body" /\ Len(aiAd) > 0 THEN aiAd
    ELSE Head(aiStack).bottom

\* low and high of the widening of entry with body, bound by bound.
WidenedBounds(entry, body, left) ==
    /\ left.low = (IF body.low < entry.low THEN I32Min ELSE entry.low)
    /\ left.high = (IF body.high > entry.high THEN I32Max ELSE entry.high)

\* The state leaving a loop whose body completed an iteration holds the
\* variables bound at loop entry and at the body's exit, each widened.
LoopExitIsWidening ==
    (WhileLeft /\ aiDom = "interval" /\ Len(aiAd') > 0 /\ Len(LastBodyExit) > 0) =>
        /\ aiAd'[1] = LatticeWiden(aiDom, Head(aiStack).init, LastBodyExit[1])
        /\ DOMAIN aiAd'[1] = DOMAIN Head(aiStack).init \cap DOMAIN LastBodyExit[1]
        /\ \A var \in DOMAIN aiAd'[1] :
               WidenedBounds(Head(aiStack).init[var], LastBodyExit[1][var], aiAd'[1][var])

\* tests::abstract_interpret2: the return after the loop finishes with [i32::MIN, 10].
HalvingLoopFinished ==
    (AtStmt("Return") /\ aiUid' # aiUid /\ aiFn = 2 /\ aiDom = "interval") =>
        \E key \in DOMAIN aiFinished' :
            /\ DOMAIN aiFinished' = {key}
            /\ aiFinished'[key] = IntervalOf(I32Min, 10)

\* C21: with the interval domain the state leaving a while loop is the
\* widening of the loop-entry state with the body's exit state: a bound the
\* body moved outward is i32::MIN or i32::MAX, any other bound keeps its
\* loop-entry value.  `x=10; while x { x=x/2; } return x;` finishes with
\* [i32::MIN, 10].
C21_LoopExitIsWidenedEntry ==
    [][LoopExitIsWidening /\ HalvingLoopFinished]_vars

\* The halving loop was left with x = [i32::MIN, 10] after the body moved the
\* low bound, and the function returned it.
C21_Witness ==
    /\ aiFn = 2
    /\ aiDom = "interval"
    /\ aiStatus = "done"
    /\ \E key \in DOMAIN aiFinished : aiFinished[key] = IntervalOf(I32Min, 10)

\* When ai_func has returned, no two entries of the finished sink come from
\* one return statement.
OneEntryPerReturn ==
    aiStatus = "done" =>
        \A u1, u2 \in DOMAIN aiFinished :
            aiReturns[u1] = aiReturns[u2] => u1 = u2

\* The values of the finished sink.
FinishedValues(finished) == {finished[key] : key \in DOMAIN finished}

\* tests::abstract_interpret6 with the parameter unconstrained: once both
\* returns have called finish the sink holds Value(15) and Value(9).
BranchReturnsFinished ==
    (aiFn = 5 /\ aiDom = "concrete" /\ aiStatus = "done"
     /\ Cardinality(DOMAIN aiFinished) = 2) =>
        FinishedValues(aiFinished) = {ConcreteValue(15), ConcreteValue(9)}

\* finish never stores under a key the sink already holds.
FinishKeyIsFresh ==
    aiUid < MaxUid => \A key \in DOMAIN aiFinished : key <= aiUid

\* C22: when the interpreter finishes, the finished sink holds exactly one
\* entry for each return statement reached, under a key unique to that
\* statement, and entries of different return statements never overwrite one
\* another; `if x { return 10+5; } else { return 7+2; }` with an
\* unconstrained parameter yields {Value(15), Value(9)}.
C22_OneFinishedEntryPerReturn ==
    OneEntryPerReturn /\ FinishKeyIsFresh /\ BranchReturnsFinished

-----------------------------------------------------------------------------
(* The merge specification: join and widen applied to two operand states, of *)
(* a LatticeDomain over Interval or Concrete, or of an ESSADomain over a     *)
(* LatticeDomain of intervals.                                               *)

\* The maps binding some of the variables 0..MergeMaxVar to values of vals.
MapsInto(vals) ==
    UNION {[keys -> vals] : keys \in SUBSET (0..MergeMaxVar)}

\* The values the operand maps hold, by kind; for "essa" they are class ids.
MergeValues(kind) ==
    CASE kind = "interval" -> {IntervalOf(0, 0), IntervalOf(1, 5)}
      [] kind = "concrete" -> {ConcreteBottom, ConcreteValue(1)}
      [] OTHER -> 0..(MergeIds - 1)

\* The site a merge of the specification is called for.
MergeSite == 1

\* The inner LatticeDomain of an ESSADomain operand: every class has a value.
MergeInnerAd == [c \in 0..(MergeIds - 1) |-> IntervalOf(c, c)]

\* The key set of an operand or a result.
MergeKeys(state) ==
    IF mgKind = "essa" THEN DOMAIN state.var_to_val ELSE DOMAIN state

InitMerge ==
    /\ mgOp = "new"
    /\ mgKind \in {"interval", "concrete", "essa"}
    /\ \E a \in MapsInto(MergeValues(mgKind)), b \in MapsInto(MergeValues(mgKind)) :
           /\ mgSelf = IF mgKind = "essa" THEN [var_to_val |-> a, ad |-> MergeInnerAd] ELSE a
           /\ mgOther = IF mgKind = "essa" THEN [var_to_val |-> b, ad |-> MergeInnerAd] ELSE b
    /\ mgOut = BTreeMapNew
    /\ mgGraph = [EGraphNew EXCEPT !.uf = NewAllNotEquals(MergeIds)]
    /\ mgStaticPhis = BTreeMapNew
    /\ mgLookup = << >>
    /\ IdleUF
    /\ IdleTable
    /\ IdleESSA
    /\ IdleLattice
    /\ IdleDomain
    /\ IdleEGraph
    /\ IdleAI
    /\ IdleXlog

\* LatticeDomain::join
MgLatticeJoin ==
    /\ mgOp = "new"
    /\ mgKind # "essa"
    /\ mgOut' = LatticeJoin(mgKind, mgSelf, mgOther)
    /\ mgOp' = "join"
    /\ mgLookup' = << >>
    /\ UNCHANGED <<mgKind, mgSelf, mgOther, mgGraph, mgStaticPhis>>
    /\ UNCHANGED <<ufVars, tblVars, egVars, aiVars, latVars, domVars, esVars, xlVars>>

\* LatticeDomain::widen
MgLatticeWiden ==
    /\ mgOp = "new"
    /\ mgKind # "essa"
    /\ mgOut' = LatticeWiden(mgKind, mgSelf, mgOther)
    /\ mgOp' = "widen"
    /\ mgLookup' = << >>
    /\ UNCHANGED <<mgKind, mgSelf, mgOther, mgGraph, mgStaticPhis>>
    /\ UNCHANGED <<ufVars, tblVars, egVars, aiVars, latVars, domVars, esVars, xlVars>>

\* ESSADomain::join
MgEssaJoin ==
    /\ mgOp = "new"
    /\ mgKind = "essa"
    /\ \E r \in {ESSAJoin("interval", mgSelf, mgOther, mgGraph, MergeSite)} :
           /\ mgOut' = r.out
           /\ mgGraph' = r.graph
    /\ mgOp' = "join"
    /\ mgLookup' = << >>
    /\ UNCHANGED <<mgKind, mgSelf, mgOther, mgStaticPhis>>
    /\ UNCHANGED <<ufVars, tblVars, egVars, aiVars, latVars, domVars, esVars, xlVars>>

\* ESSADomain::widen, called again with the same operands as the while loop
\* of the interpreter does when the body's state did not change.
MgEssaWiden ==
    /\ mgOp \in {"new", "widen"}
    /\ mgKind = "essa"
    /\ NumClasses(mgGraph.uf) + 2 * (MergeMaxVar + 1) <= MergeMaxIds
    /\ \E r \in {ESSAWiden("interval", mgSelf, mgOther, mgGraph, mgStaticPhis, MergeSite)} :
           /\ mgOut' = r.out
           /\ mgGraph' = r.graph
           /\ mgStaticPhis' = r.static_phis
    /\ mgOp' = "widen"
    /\ mgLookup' = << >>
    /\ UNCHANGED <<mgKind, mgSelf, mgOther>>
    /\ UNCHANGED <<ufVars, tblVars, egVars, aiVars, latVars, domVars, esVars, xlVars>>

\* lookup called on the result of the last join or widen, for a variable
\* that one of the operands bound.
MgLookup ==
    /\ mgOp \in {"join", "widen"}
    /\ \E var \in MergeKeys(mgSelf) \cup MergeKeys(mgOther) :
           mgLookup' = [var |-> var,
                        out |-> IF mgKind = "essa" THEN ESSALookup("interval", mgOut, var)
                                ELSE <<Lookup(mgKind, mgOut, var)>>]
    /\ UNCHANGED <<mgOp, mgKind, mgSelf, mgOther, mgOut, mgGraph, mgStaticPhis>>
    /\ UNCHANGED <<ufVars, tblVars, egVars, aiVars, latVars, domVars, esVars, xlVars>>

NextMerge == MgLatticeJoin \/ MgLatticeWiden \/ MgEssaJoin \/ MgEssaWiden \/ MgLookup

SpecMerge == InitMerge /\ [][NextMerge]_vars

\* C9: the key set of the result of LatticeDomain::join, LatticeDomain::widen,
\* and of the variable map of ESSADomain::join and ESSADomain::widen, is the
\* intersection of the key sets of the two operands.
C9_MergeKeysAreIntersection ==
    mgOp \in {"join", "widen"} =>
        MergeKeys(mgOut) = MergeKeys(mgSelf) \cap MergeKeys(mgOther)

\* A widen of ESSADomain operands that each bind a variable the other does not
\* and bind a common variable to different classes: the result binds it to a
\* static phi the site's entry of static_phis records.
C9_Witness ==
    /\ mgOp = "widen"
    /\ mgKind = "essa"
    /\ MergeKeys(mgSelf) \ MergeKeys(mgOther) # {}
    /\ MergeKeys(mgOther) \ MergeKeys(mgSelf) # {}
    /\ \E var \in MergeKeys(mgOut) :
           /\ mgSelf.var_to_val[var] # mgOther.var_to_val[var]
           /\ mgOut.var_to_val[var] \notin {mgSelf.var_to_val[var], mgOther.var_to_val[var]}
    /\ MergeSite \in DOMAIN mgStaticPhis

-----------------------------------------------------------------------------
(* The Lattice specification: the lattice operations of ai (Interval,      *)
(* Concrete) and of imp (Reachability, Constant) applied to three values.  *)

\* The largest magnitude of an endpoint or constant besides i32::MIN and i32::MAX.
LatMaxAbs == 1

LatInts == {I32Min, I32Max} \cup ((0 - LatMaxAbs)..LatMaxAbs)

\* Every Interval over the endpoints, the inverted ones included: the
\* fields of the struct are public and unconstrained.
IntervalValues == {IntervalOf(l, h) : l \in LatInts, h \in LatInts}

\* The intervals the lattice operations are meant for: low <= high, and top.
IntervalWellFormed(v) == v.low <= v.high \/ v = IntervalTop

ConcreteValues == {ConcreteBottom, ConcreteTop} \cup {ConcreteValue(v) : v \in LatInts}

ReachabilityValues == {"Unreachable", "Reachable"}

ConstantValues == {ConstantBottom, ConstantTop} \cup {ConstantValue(v) : v \in LatInts}

LatKinds == {"interval", "concrete", "reachability", "constant"}

LatValues(kind) ==
    CASE kind = "interval" -> IntervalValues
      [] kind = "concrete" -> ConcreteValues
      [] kind = "reachability" -> ReachabilityValues
      [] kind = "constant" -> ConstantValues

LatWellFormed(kind, v) == kind = "interval" => IntervalWellFormed(v)

LatJoin(kind, a, b) ==
    CASE kind = "interval" -> IntervalJoin(a, b)
      [] kind = "concrete" -> ConcreteJoin(a, b)
      [] kind = "reachability" -> ReachabilityJoin(a, b)
      [] kind = "constant" -> ConstantJoin(a, b)

LatMeet(kind, a, b) ==
    CASE kind = "interval" -> IntervalMeet(a, b)
      [] kind = "concrete" -> ConcreteMeet(a, b)
      [] kind = "reachability" -> ReachabilityMeet(a, b)
      [] kind = "constant" -> ConstantMeet(a, b)

LatTop(kind) ==
    CASE kind = "interval" -> IntervalTop
      [] kind = "concrete" -> ConcreteTop
      [] kind = "reachability" -> ReachabilityTop
      [] kind = "constant" -> ConstantTop

LatBottom(kind) ==
    CASE kind = "interval" -> IntervalBottom
      [] kind = "concrete" -> ConcreteBottom
      [] kind = "reachability" -> ReachabilityBottom
      [] kind = "constant" -> ConstantBottom

InitLattice ==
    /\ latKind \in LatKinds
    /\ latOp = "new"
    /\ latA \in LatValues(latKind)
    /\ latB \in LatValues(latKind)
    /\ latC \in LatValues(latKind)
    /\ latOut = << >>
    /\ IdleUF
    /\ IdleTable
    /\ IdleESSA
    /\ IdleEGraph
    /\ IdleAI
    /\ IdleMerge
    /\ IdleXlog
    /\ IdleDomain

\* The calls of one binary operation f on a, b, c, top and bottom that the
\* lattice laws speak of.
LawCalls(kind, a, b, c, Op(_, _, _)) ==
    [ab |-> Op(kind, a, b),
     ba |-> Op(kind, b, a),
     ab_c |-> Op(kind, Op(kind, a, b), c),
     a_bc |-> Op(kind, a, Op(kind, b, c)),
     aa |-> Op(kind, a, a),
     bottom_a |-> Op(kind, LatBottom(kind), a),
     a_bottom |-> Op(kind, a, LatBottom(kind)),
     top_a |-> Op(kind, LatTop(kind), a),
     a_top |-> Op(kind, a, LatTop(kind))]

\* join on the three values.
LJoin ==
    /\ latOp # "idle"
    /\ latOp' = "join"
    /\ latOut' = LawCalls(latKind, latA, latB, latC, LatJoin)
    /\ UNCHANGED <<latKind, latA, latB, latC>>
    /\ UNCHANGED <<ufVars, tblVars, egVars, aiVars, mgVars, domVars, esVars, xlVars>>

\* meet on the three values.
LMeet ==
    /\ latOp # "idle"
    /\ latOp' = "meet"
    /\ latOut' = LawCalls(latKind, latA, latB, latC, LatMeet)
    /\ UNCHANGED <<latKind, latA, latB, latC>>
    /\ UNCHANGED <<ufVars, tblVars, egVars, aiVars, mgVars, domVars, esVars, xlVars>>

NextLattice == LJoin \/ LMeet

SpecLattice == InitLattice /\ [][NextLattice]_vars

\* C13: for Interval, Concrete, Reachability and Constant, join is
\* commutative, associative and idempotent over all values of the lattice.
C13_JoinLaws ==
    latOp = "join" =>
        /\ latOut.ab = latOut.ba
        /\ latOut.ab_c = latOut.a_bc
        /\ latOut.aa = latA

\* join has been applied to three distinct values of which two are
\* incomparable, in a lattice of ai and in a lattice of imp.
C13_Witness ==
    /\ latOp = "join"
    /\ latKind = "concrete"
    /\ latA = ConcreteValue(0)
    /\ latB = ConcreteValue(1)
    /\ latC = ConcreteTop
    /\ latOut.ab = ConcreteBottom
    /\ latOut.ab_c = ConcreteBottom

\* C14: in each lattice bottom() is neutral for join: bottom().join(a) =
\* a.join(bottom()) = a for every value a.
C14_BottomNeutralForJoin ==
    latOp = "join" => (latOut.bottom_a = latA /\ latOut.a_bottom = latA)

\* The lattices of ai name their elements the other way round: their join
\* has top() as its neutral element.
JoinNeutralIsTop(kind) == kind \in {"interval", "concrete"}

\* C14, amended: bottom() is neutral for join in Reachability and Constant;
\* in Interval and Concrete the neutral element of join is top().
C14_JoinNeutralElement ==
    latOp = "join" =>
        IF JoinNeutralIsTop(latKind)
        THEN latOut.top_a = latA /\ latOut.a_top = latA
        ELSE latOut.bottom_a = latA /\ latOut.a_bottom = latA

\* An Interval that is neither top nor bottom has been joined with both:
\* bottom() swallowed it and top() left it alone.
C14_Witness ==
    /\ latOp = "join"
    /\ latKind = "interval"
    /\ latA = IntervalOf(0, 1)
    /\ latOut.bottom_a = IntervalBottom
    /\ latOut.a_bottom = IntervalBottom
    /\ latOut.top_a = latA

\* C15: in each lattice meet is commutative, associative and idempotent,
\* and top() is neutral for meet: top().meet(a) = a for every value a.
C15_MeetLaws ==
    latOp = "meet" =>
        /\ latOut.ab = latOut.ba
        /\ latOut.ab_c = latOut.a_bc
        /\ latOut.aa = latA
        /\ latOut.top_a = latA

\* C15, amended: meet is commutative and associative over all values; on
\* every well-formed value (every value but an Interval with low > high
\* other than top) meet is idempotent and has a neutral element, which is
\* top() in Reachability and Constant and bottom() in Interval and Concrete.
C15_MeetLawsNeutralElement ==
    latOp = "meet" =>
        /\ latOut.ab = latOut.ba
        /\ latOut.ab_c = latOut.a_bc
        /\ LatWellFormed(latKind, latA) =>
              /\ latOut.aa = latA
              /\ IF JoinNeutralIsTop(latKind)
                 THEN latOut.bottom_a = latA /\ latOut.a_bottom = latA
                 ELSE latOut.top_a = latA /\ latOut.a_top = latA

\* Two disjoint Intervals have been met: the result collapsed to top(),
\* top() swallowed the first and bottom() left it alone.
C15_Witness ==
    /\ latOp = "meet"
    /\ latKind = "interval"
    /\ latA = IntervalOf(0, 0)
    /\ latB = IntervalOf(1, 1)
    /\ latOut.ab = IntervalTop
    /\ latOut.top_a = IntervalTop
    /\ latOut.bottom_a = latA

-----------------------------------------------------------------------------
(* The Domain specification: assign, lookup, branch and forward_transfer   *)
(* called on a LatticeDomain over Interval or over Concrete.               *)

\* The largest variable (Symbol) of the domain.
DomMaxVar == 1

DomVars == 0..DomMaxVar

\* The values assigned and branched on, by lattice: top, bottom and the
\* well-formed values over the endpoints.
DomValues(kind) ==
    IF kind = "interval" THEN {v \in IntervalValues : IntervalWellFormed(v)}
    ELSE ConcreteValues

\* The binary operators of ExpressionAST that forward_transfer evaluates.
ArithOps == {"Add", "Subtract", "Multiply", "Divide", "Modulo"}

\* The literals of the expressions; the other operand values, i32::MIN and
\* i32::MAX among them, are reached through the variables.
DomLiterals == {-1, 0}

\* The operands of the expressions: the variables and the literals.
DomLeaves == {<<"Variable", v>> : v \in DomVars} \cup {<<"NumberLiteral", n>> : n \in DomLiterals}

\* The expressions transferred: one arithmetic operator on two operands.
DomExprs == {<<op, l, r>> : op \in ArithOps, l \in DomLeaves, r \in DomLeaves}

\* The last call panicked: nothing is called after it.
DomPanicked == domOp = "forward_transfer" /\ domOut = << >>

InitDomain ==
    /\ domKind \in {"interval", "concrete"}
    /\ domOp = "new"
    /\ domAd = LatticeDomainNew
    /\ domArg = << >>
    /\ domOut = << >>
    /\ IdleUF
    /\ IdleTable
    /\ IdleESSA
    /\ IdleEGraph
    /\ IdleAI
    /\ IdleMerge
    /\ IdleXlog
    /\ IdleLattice

\* LatticeDomain::assign
DAssign ==
    /\ domOp # "idle"
    /\ ~DomPanicked
    /\ \E var \in DomVars, val \in DomValues(domKind) :
           /\ domAd' = Assign(domAd, var, val)
           /\ domArg' = <<var, val>>
    /\ domOp' = "assign"
    /\ domOut' = << >>
    /\ UNCHANGED domKind
    /\ UNCHANGED <<ufVars, tblVars, egVars, aiVars, mgVars, latVars, esVars, xlVars>>

\* LatticeDomain::lookup
DLookup ==
    /\ domOp # "idle"
    /\ ~DomPanicked
    /\ \E var \in DomVars :
           /\ domArg' = var
           /\ domOut' = <<Lookup(domKind, domAd, var)>>
    /\ domOp' = "lookup"
    /\ UNCHANGED <<domKind, domAd>>
    /\ UNCHANGED <<ufVars, tblVars, egVars, aiVars, mgVars, latVars, esVars, xlVars>>

\* LatticeDomain::branch; the domain stays in hand to compare the sides with.
DBranch ==
    /\ domOp # "idle"
    /\ ~DomPanicked
    /\ \E cond \in DomValues(domKind) :
           /\ domArg' = cond
           /\ domOut' = Branch(domKind, domAd, cond)
    /\ domOp' = "branch"
    /\ UNCHANGED <<domKind, domAd>>
    /\ UNCHANGED <<ufVars, tblVars, egVars, aiVars, mgVars, latVars, esVars, xlVars>>

\* LatticeDomain::forward_transfer; its result is << >> when it panics.
DForwardTransfer ==
    /\ domOp # "idle"
    /\ ~DomPanicked
    /\ \E expr \in DomExprs :
           /\ domArg' = expr
           /\ domOut' = ForwardTransfer(domKind, expr, domAd)
    /\ domOp' = "forward_transfer"
    /\ UNCHANGED <<domKind, domAd>>
    /\ UNCHANGED <<ufVars, tblVars, egVars, aiVars, mgVars, latVars, esVars, xlVars>>

NextDomain == DAssign \/ DLookup \/ DBranch \/ DForwardTransfer

SpecDomain == InitDomain /\ [][NextDomain]_vars

\* C16: branch(cond) returns (Some, None) whenever cond is known true,
\* (None, Some) whenever it is known false and (Some, Some) when neither is
\* known, every returned state with the bindings of the input state, for
\* every condition value of Interval and Concrete, Top and Bottom included.
C16_BranchFollowsKnownTruth ==
    domOp = "branch" =>
        /\ IsKnownTrue(domKind, domArg) => (domOut.t = <<domAd>> /\ domOut.f = << >>)
        /\ IsKnownFalse(domKind, domArg) => (domOut.t = << >> /\ domOut.f = <<domAd>>)
        /\ (~IsKnownTrue(domKind, domArg) /\ ~IsKnownFalse(domKind, domArg)) =>
              (domOut.t = <<domAd>> /\ domOut.f = <<domAd>>)

\* The operators C18 speaks of, by lattice.
C18Ops(kind) ==
    IF kind = "interval" THEN {"Add", "Subtract", "Multiply", "Divide"}
    ELSE {"Add", "Subtract", "Multiply", "Divide", "Modulo"}

\* C18: forward_transfer never aborts on overflow or division by zero:
\* Interval Add, Subtract, Multiply and Divide and Concrete Add, Subtract,
\* Multiply, Divide and Modulo return a value for all operand values.
C18_ForwardTransferNeverAborts ==
    (domOp = "forward_transfer" /\ domArg[1] \in C18Ops(domKind)) => domOut # << >>

\* C17: lookup of a variable that is not bound in the state returns top and
\* never fails, in LatticeDomain and in ESSADomain, also for a variable that
\* the preceding join or widen dropped because only one side bound it.
C17_LookupUnboundReturnsTop ==
    (mgLookup # << >> /\ mgLookup.var \notin MergeKeys(mgOut)) =>
        /\ mgLookup.out # << >>
        /\ mgKind # "essa" => mgLookup.out = <<LatticeTop(mgKind)>>
        /\ mgKind = "essa" => mgLookup.out[1][2] = LatticeTop("interval")

-----------------------------------------------------------------------------
(* The ESSA specification: ai_func on a function that ends in a while loop, *)
(* interpreted with an ESSADomain over the unit domain or over a            *)
(* LatticeDomain<ClassId, Interval, Term>.                                  *)

\* The most widen calls of one run.
EsMaxWidens == 8

\* The functions interpreted: params, the assignments before the loop, the
\* loop's condition and the assignments of its body.  Symbols: x = 0, y = 1.
\* 1: fn basic(x) { y = x; while x { x = x - 1; y = y - 1; } }
\* 2: fn basic(x) { while x < 100 { x = x + 7; } }
\* 3: fn basic() { x = 1; y = 1; while 1 { y = x; x = 2; } }
\* 4: fn basic(x, y) { while y < x { y = y + 1; } }
LoopFunctions ==
    <<[params |-> <<0>>,
       pre |-> <<<<"Assign", 1, Var(0)>>>>,
       cond |-> Var(0),
       body |-> <<<<"Assign", 0, <<"Subtract", Var(0), Num(1)>>>>,
                  <<"Assign", 1, <<"Subtract", Var(1), Num(1)>>>>>>],
      [params |-> <<0>>,
       pre |-> << >>,
       cond |-> <<"Less", Var(0), Num(100)>>,
       body |-> <<<<"Assign", 0, <<"Add", Var(0), Num(7)>>>>>>],
      [params |-> << >>,
       pre |-> <<<<"Assign", 0, Num(1)>>, <<"Assign", 1, Num(1)>>>>,
       cond |-> Num(1),
       body |-> <<<<"Assign", 1, Var(0)>>, <<"Assign", 0, Num(2)>>>>],
      [params |-> <<0, 1>>,
       pre |-> << >>,
       cond |-> <<"Less", Var(1), Var(0)>>,
       body |-> <<<<"Assign", 1, <<"Add", Var(1), Num(1)>>>>>>]>>

EsFunc == LoopFunctions[esFn]

\* unique_id_fix of the while loop: ai_stmt counts the statements before it.
EsSite == Len(EsFunc.pre) + 1

\* ai_func, the for loop over the parameters: each is assigned ad.bottom().
RECURSIVE EsAssignParams(_, _, _, _, _)
EsAssignParams(dom, params, self, graph, num_params) ==
    LET Assigned(b) ==
            EsAssignParams(dom, Tail(params), ESSAAssign(dom, self, Head(params), b.val),
                           b.graph, b.num_params)
    IN  IF params = << >> THEN [self |-> self, graph |-> graph, num_params |-> num_params]
        ELSE Assigned(ESSABottom(dom, graph, num_params))

InitESSA ==
    /\ esDom \in {"unit", "interval"}
    /\ esFn \in 1..Len(LoopFunctions)
    /\ esPc = <<"params", 0>>
    /\ esInit = << >>
    /\ esHead = << >>
    /\ esAd = [var_to_val |-> BTreeMapNew, ad |-> LatticeDomainNew]
    /\ esExit = << >>
    /\ esGraph = EGraphNew
    /\ esStaticPhis = BTreeMapNew
    /\ esNumParams = 0
    /\ esWidened = << >>
    /\ IdleUF
    /\ IdleTable
    /\ IdleEGraph
    /\ IdleAI
    /\ IdleMerge
    /\ IdleXlog
    /\ IdleLattice
    /\ IdleDomain

\* ai_func up to the call of ai_block.
EsParams ==
    /\ esPc[1] = "params"
    /\ \E r \in {EsAssignParams(esDom, EsFunc.params, esAd, esGraph, esNumParams)} :
           /\ esAd' = r.self
           /\ esGraph' = r.graph
           /\ esNumParams' = r.num_params
    /\ esPc' = IF EsFunc.pre = << >> THEN <<"while", 0>> ELSE <<"pre", 1>>
    /\ UNCHANGED <<esDom, esFn, esInit, esHead, esExit, esStaticPhis, esWidened>>
    /\ UNCHANGED <<ufVars, tblVars, egVars, aiVars, mgVars, latVars, domVars, xlVars>>

\* ai_stmt, Assign: a statement before the loop or of its body.
EsAssign ==
    /\ esPc[1] \in {"pre", "body"}
    /\ \E stmt \in {(IF esPc[1] = "pre" THEN EsFunc.pre ELSE EsFunc.body)[esPc[2]]} :
         \E r \in {ESSAForwardTransfer(esDom, stmt[3], esAd, esGraph)} :
           /\ esAd' = ESSAAssign(esDom, r.self, stmt[2], r.val)
           /\ esGraph' = r.graph
    /\ esPc' = IF esPc[1] = "pre"
               THEN (IF esPc[2] < Len(EsFunc.pre) THEN <<"pre", esPc[2] + 1>> ELSE <<"while", 0>>)
               ELSE (IF esPc[2] < Len(EsFunc.body) THEN <<"body", esPc[2] + 1>> ELSE <<"widen", 0>>)
    /\ UNCHANGED <<esDom, esFn, esInit, esHead, esExit, esStaticPhis, esNumParams, esWidened>>
    /\ UNCHANGED <<ufVars, tblVars, egVars, aiVars, mgVars, latVars, domVars, xlVars>>

\* ai_stmt, While: init = ad.clone().
EsWhile ==
    /\ esPc[1] = "while"
    /\ esInit' = esAd
    /\ esHead' = esAd
    /\ esPc' = <<"cond", 0>>
    /\ UNCHANGED <<esDom, esFn, esAd, esExit, esGraph, esStaticPhis, esNumParams, esWidened>>
    /\ UNCHANGED <<ufVars, tblVars, egVars, aiVars, mgVars, latVars, domVars, xlVars>>

\* The head of the loop: the condition is evaluated and ad.clone() branches
\* on it; without a cont side the loop breaks.
EsCond ==
    /\ esPc[1] = "cond"
    /\ \E r \in {ESSAForwardTransfer(esDom, EsFunc.cond, esHead, esGraph)} :
         \E b \in {ESSABranch(esDom, r.self, r.val)} :
           /\ esHead' = r.self
           /\ esGraph' = r.graph
           /\ esExit' = b.f
           /\ esAd' = IF b.t = << >> THEN esAd ELSE b.t[1]
           /\ esPc' = IF b.t = << >> THEN <<"done", 0>> ELSE <<"body", 1>>
    /\ UNCHANGED <<esDom, esFn, esInit, esStaticPhis, esNumParams, esWidened>>
    /\ UNCHANGED <<ufVars, tblVars, egVars, aiVars, mgVars, latVars, domVars, xlVars>>

\* The end of the body: widened = init.widen(&bottom, unique_id_fix); the
\* loop breaks when ad == widened and goes on with ad = widened otherwise.
EsWiden ==
    /\ esPc[1] = "widen"
    /\ Len(esWidened) < EsMaxWidens
    /\ \E w \in {ESSAWiden(esDom, esInit, esAd, esGraph, esStaticPhis, EsSite)} :
           /\ esGraph' = w.graph
           /\ esStaticPhis' = w.static_phis
           /\ esWidened' = Append(esWidened, w.out.var_to_val)
           /\ esHead' = IF esHead = w.out THEN esHead ELSE w.out
           /\ esPc' = IF esHead = w.out THEN <<"done", 0>> ELSE <<"cond", 0>>
    /\ UNCHANGED <<esDom, esFn, esInit, esAd, esExit, esNumParams>>
    /\ UNCHANGED <<ufVars, tblVars, egVars, aiVars, mgVars, latVars, domVars, xlVars>>

NextESSA == EsParams \/ EsAssign \/ EsWhile \/ EsCond \/ EsWiden

SpecESSA == InitESSA /\ [][NextESSA]_vars

\* The widen call i bound var to a class other than the one it had at the
\* loop's entry: var is loop-carried and the class is its static phi.
EsLoopCarried(i, var) ==
    /\ var \in DOMAIN esWidened[i]
    /\ esWidened[i][var] # esInit.var_to_val[var]

\* C19: during the fixpoint iteration of one while loop under the ESSA
\* domain every widen call binds a loop-carried variable to the same class
\* id, its static phi, from the first widening until the loop exits.
C19_StaticPhiIsStable ==
    \A i \in 1..Len(esWidened) : \A j \in i..Len(esWidened) :
        \A var \in DOMAIN esWidened[i] :
            EsLoopCarried(i, var) =>
                (var \in DOMAIN esWidened[j] /\ esWidened[j][var] = esWidened[i][var])

-----------------------------------------------------------------------------
(* The Xlog specification: fixpoint on the graph program of                  *)
(* tests::simple_graph over a set of Edge facts, on the program of           *)
(* tests::simple_chase or on that of tests::simple_rewrite.  Symbols are     *)
(* numbers; each round of the loop of fixpoint is one step.                  *)

\* The Edge facts of the graph program are pairs of nodes in 0..XlNodes - 1.
XlNodes == 3

\* The loop of fixpoint is not followed beyond XlMaxRounds iterations.
XlMaxRounds == 12

XVar(sym) == <<"Variable", sym>>

XNum(value) == <<"Concrete", value>>

\* => Name(args);
Fact(table, slots) == [query |-> << >>, action |-> <<[table |-> table, slots |-> slots]>>]

\* #Edge(Int Int ->); #Path(Int Int ->); #Success(-> Int);
GraphSchemas ==
    <<[determinant |-> <<"Int", "Int">>, dependent |-> << >>],
      [determinant |-> <<"Int", "Int">>, dependent |-> << >>],
      [determinant |-> << >>, dependent |-> <<"Int">>]>>

\* Edge(a b) => Path(a b); Path(a b) Edge(b c) => Path(a c); the facts;
\* Path(3 5) => Success(1);
GraphProgram(edges) ==
    <<[query  |-> <<[table |-> 1, slots |-> <<XVar(0), XVar(1)>>]>>,
       action |-> <<[table |-> 2, slots |-> <<XVar(0), XVar(1)>>]>>],
      [query  |-> <<[table |-> 2, slots |-> <<XVar(0), XVar(1)>>],
                    [table |-> 1, slots |-> <<XVar(1), XVar(2)>>]>>,
       action |-> <<[table |-> 2, slots |-> <<XVar(0), XVar(2)>>]>>]>>
    \o [i \in 1..Len(edges) |-> Fact(1, <<XNum(edges[i][1]), XNum(edges[i][2])>>)]
    \o <<[query  |-> <<[table |-> 2, slots |-> <<XNum(3), XNum(5)>>]>>,
          action |-> <<[table |-> 3, slots |-> <<XNum(1)>>]>>]>>

\* The facts of tests::simple_graph.
TestEdges == <<<<0, 1>>, <<0, 2>>, <<0, 3>>, <<2, 4>>, <<4, 3>>, <<4, 5>>, <<3, 0>>>>

\* #Constant(Int -> EClassId); #Add(EClassId EClassId -> EClassId);
TermSchemas ==
    <<[determinant |-> <<"Int">>, dependent |-> <<"EClassId">>],
      [determinant |-> <<"EClassId", "EClassId">>, dependent |-> <<"EClassId">>]>>

\* Add(x y z) => Add(y x z);
Commute ==
    [query  |-> <<[table |-> 2, slots |-> <<XVar(0), XVar(1), XVar(2)>>]>>,
     action |-> <<[table |-> 2, slots |-> <<XVar(1), XVar(0), XVar(2)>>]>>]

\* tests::simple_chase: Add(x y z) => Add(y x z); => Constant(1 a);
\* => Constant(2 a); Constant(_ a) Constant(_ b) => Add(a b z);
ChaseProgram ==
    <<Commute,
      Fact(1, <<XNum(1), XVar(3)>>),
      Fact(1, <<XNum(2), XVar(3)>>),
      [query  |-> <<[table |-> 1, slots |-> <<<<"Wildcard">>, XVar(3)>>],
                    [table |-> 1, slots |-> <<<<"Wildcard">>, XVar(4)>>]>>,
       action |-> <<[table |-> 2, slots |-> <<XVar(3), XVar(4), XVar(2)>>]>>]>>

\* tests::simple_rewrite: Add(x y z) => Add(y x z);
\* Add(a b ab) Add(ab c total) => Add(a bc total) Add(b c bc);
\* => Constant(1 one); => Constant(2 two); => Constant(3 three);
\* Constant(1 one) Constant(2 two) Constant(3 three)
\*     => Add(one two one_plus_two) Add(one_plus_two three one_plus_two_plus_three);
RewriteProgram ==
    <<Commute,
      [query  |-> <<[table |-> 2, slots |-> <<XVar(3), XVar(4), XVar(5)>>],
                    [table |-> 2, slots |-> <<XVar(5), XVar(6), XVar(7)>>]>>,
       action |-> <<[table |-> 2, slots |-> <<XVar(3), XVar(8), XVar(7)>>],
                    [table |-> 2, slots |-> <<XVar(4), XVar(6), XVar(8)>>]>>],
      Fact(1, <<XNum(1), XVar(9)>>),
      Fact(1, <<XNum(2), XVar(10)>>),
      Fact(1, <<XNum(3), XVar(11)>>),
      [query  |-> <<[table |-> 1, slots |-> <<XNum(1), XVar(9)>>],
                    [table |-> 1, slots |-> <<XNum(2), XVar(10)>>],
                    [table |-> 1, slots |-> <<XNum(3), XVar(11)>>]>>,
       action |-> <<[table |-> 2, slots |-> <<XVar(9), XVar(10), XVar(12)>>],
                    [table |-> 2, slots |-> <<XVar(12), XVar(11), XVar(13)>>]>>]>>

\* A program of the specification is <<"graph", edges>>, <<"chase">> or
\* <<"rewrite">>.
XlSchemas(prog) == IF prog[1] = "graph" THEN GraphSchemas ELSE TermSchemas

XlProgram(prog) ==
    CASE prog[1] = "graph" -> GraphProgram(prog[2])
      [] prog[1] = "chase" -> ChaseProgram
      [] prog[1] = "rewrite" -> RewriteProgram

\* The pairs of a set of edges as the facts of a program, in ascending order.
RECURSIVE EdgeSeq(_)
EdgeSeq(edges) ==
    IF edges = {} THEN << >>
    ELSE LET e == CHOOSE e \in edges :
                      \A f \in edges : e[1] < f[1] \/ (e[1] = f[1] /\ e[2] <= f[2])
         IN  <<e>> \o EdgeSeq(edges \ {e})

XlPrograms ==
    {<<"graph", EdgeSeq(edges)>> : edges \in SUBSET ((0..(XlNodes - 1)) \X (0..(XlNodes - 1)))}
        \cup {<<"graph", TestEdges>>, <<"chase">>, <<"rewrite">>}

InitXlog ==
    /\ xlProg \in XlPrograms
    /\ xlDb = DatabaseNew(<< >>)
    /\ xlStatus = "new"
    /\ xlLast = << >>
    /\ xlRounds = 0
    /\ IdleUF
    /\ IdleTable
    /\ IdleEGraph
    /\ IdleAI
    /\ IdleMerge
    /\ IdleLattice
    /\ IdleDomain
    /\ IdleESSA

\* The test up to the call of fixpoint: Database::new and the register_table
\* calls of the schema declarations.
XlRegister ==
    /\ xlStatus = "new"
    /\ xlDb' = DatabaseNew(XlSchemas(xlProg))
    /\ xlStatus' = "running"
    /\ UNCHANGED <<xlProg, xlLast, xlRounds>>
    /\ UNCHANGED <<ufVars, tblVars, egVars, aiVars, mgVars, latVars, domVars, esVars>>

\* One iteration of the loop of fixpoint; fixpoint returns when neither the
\* actions nor repair changed anything.
XlRound ==
    /\ xlStatus = "running"
    /\ xlRounds < XlMaxRounds
    /\ \E r \in {FixpointRound(xlDb, XlProgram(xlProg))} :
           /\ xlDb' = r.db
           /\ xlLast' = <<r.acted, r.repaired>>
           /\ xlStatus' = IF r.db.panicked THEN "panic"
                          ELSE IF r.acted \/ r.repaired THEN "running" ELSE "done"
    /\ xlRounds' = xlRounds + 1
    /\ UNCHANGED xlProg
    /\ UNCHANGED <<ufVars, tblVars, egVars, aiVars, mgVars, latVars, domVars, esVars>>

NextXlog == XlRegister \/ XlRound

SpecXlog == InitXlog /\ [][NextXlog]_vars

\* The live rows of table id of a database, as a set.
XLive(db, id) ==
    {GetRow(db.tables[id], TableRows(db.tables[id], FALSE)[i]) :
         i \in 1..Len(TableRows(db.tables[id], FALSE))}

\* The classes of a union-find: the class ids paired with their roots.
XClasses(u) == {<<id, RootOf(u, id)>> : id \in 0..(Len(u) - 1)}

\* One more round on the database inserts nothing, mints no class id and
\* merges no classes.
ClosedUnderRules ==
    LET again == FixpointRound(xlDb, XlProgram(xlProg))
    IN  /\ ~again.acted
        /\ ~again.repaired
        /\ ~again.db.panicked
        /\ \A id \in 1..Len(xlDb.tables) : XLive(again.db, id) = XLive(xlDb, id)
        /\ Len(again.db.uf) = Len(xlDb.uf)
        /\ XClasses(again.db.uf) = XClasses(xlDb.uf)

\* Every live row is the row its table's canonizer makes of it.
EveryRowCanonical ==
    \A id \in 1..Len(xlDb.tables) : \A row \in XLive(xlDb, id) :
        DefaultCanonizer(xlDb.schemas[id], xlDb.uf, row, row, 1).dst = row

\* The step on which fixpoint returns: the round's actions and its repair
\* reported no change, and no table differs from before the round.
ReturnsAfterQuietRound ==
    (xlStatus = "running" /\ xlStatus' = "done") =>
        /\ xlLast' = <<FALSE, FALSE>>
        /\ ExecuteActions(xlDb,
                          [i \in 1..Len(XlProgram(xlProg)) |->
                              <<XlProgram(xlProg)[i].action,
                                DumbProductQuery(xlDb, XlProgram(xlProg)[i].query)>>],
                          FALSE).db.tables = xlDb.tables
        /\ xlDb'.tables = xlDb.tables

\* C28: fixpoint returns only after a round whose actions changed no table and
\* whose repair changed nothing; at return the database is closed under all
\* the rules and every row is canonical under its table's canonizer.
C28_FixpointReturnsClosed ==
    /\ [](xlStatus = "done" => ClosedUnderRules /\ EveryRowCanonical)
    /\ [][ReturnsAfterQuietRound]_vars

\* fixpoint returned on the program of tests::simple_rewrite after several
\* rounds, with rows in both tables.
C28_Witness ==
    /\ xlStatus = "done"
    /\ xlProg = <<"rewrite">>
    /\ xlRounds >= 3
    /\ XLive(xlDb, 1) # {}
    /\ XLive(xlDb, 2) # {}

\* The Edge facts of a graph program, as a set of pairs.
FactsOf(prog) == {prog[2][i] : i \in 1..Len(prog[2])}

\* The pairs joined by a path of at most n + 1 edges.
RECURSIVE PathsWithin(_, _)
PathsWithin(edges, n) ==
    IF n = 0 THEN edges
    ELSE LET shorter == PathsWithin(edges, n - 1)
         IN  shorter \cup {<<p[1][1], p[2][2]>> : p \in {q \in shorter \X edges : q[1][2] = q[2][1]}}

\* The pairs (a, c) joined by a non-empty path of edges.
TransitiveClosure(edges) == PathsWithin(edges, Cardinality(edges))

\* rows(false).count() of table id
XRowCount(db, id) == Len(TableRows(db.tables[id], FALSE))

\* fixpoint returned on a graph program: Edge holds the facts and Path their
\* transitive closure, each pair in one row.
GraphFixpoint ==
    (xlStatus = "done" /\ xlProg[1] = "graph") =>
        /\ XLive(xlDb, 1) = FactsOf(xlProg)
        /\ XRowCount(xlDb, 1) = Cardinality(FactsOf(xlProg))
        /\ XLive(xlDb, 2) = TransitiveClosure(FactsOf(xlProg))
        /\ XRowCount(xlDb, 2) = Cardinality(TransitiveClosure(FactsOf(xlProg)))

\* The asserts of tests::simple_graph.
TestGraphCounts ==
    (xlStatus = "done" /\ xlProg = <<"graph", TestEdges>>) =>
        /\ XRowCount(xlDb, 1) = 7
        /\ XRowCount(xlDb, 2) = 24
        /\ XRowCount(xlDb, 3) = 1

\* The rows of the three tables together.
GraphRows(db) == XRowCount(db, 1) + XRowCount(db, 2) + XRowCount(db, 3)

\* A round of fixpoint on a graph program keeps every row, and a round after
\* which fixpoint goes on has added one; Path holds pairs of the closure only,
\* so the rounds are bounded and the loop is left before XlMaxRounds.
GraphRoundGrows ==
    (xlStatus = "running" /\ xlProg[1] = "graph") =>
        /\ xlStatus' # "panic"
        /\ \A id \in 1..3 : XLive(xlDb, id) \subseteq XLive(xlDb', id)
        /\ XLive(xlDb', 2) \subseteq TransitiveClosure(FactsOf(xlProg))
        /\ xlStatus' = "running" => GraphRows(xlDb') > GraphRows(xlDb)
        /\ xlStatus' = "running" => xlRounds' < XlMaxRounds

\* C29: with Edge(a b) => Path(a b) and Path(a b) Edge(b c) => Path(a c),
\* fixpoint terminates on every set of Edge facts with Path holding exactly the
\* transitive closure of the facts and Edge exactly the facts; the 7-edge test
\* graph ends with 7 Edge rows, 24 Path rows and 1 Success row.
C29_GraphFixpointIsTransitiveClosure ==
    /\ [](GraphFixpoint /\ TestGraphCounts)
    /\ [][GraphRoundGrows]_vars

\* fixpoint returned on a graph whose closure has a pair that is no fact.
C29_Witness ==
    /\ xlStatus = "done"
    /\ xlProg[1] = "graph"
    /\ XLive(xlDb, 2) # XLive(xlDb, 1)
    /\ XLive(xlDb, 2) = TransitiveClosure(FactsOf(xlProg))
    /\ XRowCount(xlDb, 1) >= 3

\* The matches of rule i of the program on a database, as a set.
MatchesOf(db, i) ==
    LET matched == DumbProductQuery(db, XlProgram(xlProg)[i].query)
    IN  {matched[k] : k \in 1..Len(matched)}

\* The dependent variables of an action atom that chase has to find a value
\* for under subst: unbound, in a class-id column, the determinant of the
\* atom fully bound.  Each is <<atom, idx, var>>.
ToChase(db, subst, atoms) ==
    UNION {{<<atoms[k], DependentVariables(db, atoms[k])[n][1],
              DependentVariables(db, atoms[k])[n][2][2]>> :
               n \in 1..Len(DependentVariables(db, atoms[k]))} :
           k \in {k \in 1..Len(atoms) :
                     SlotsWithSubst(XDetOf(db.tables[atoms[k].table], atoms[k].slots),
                                    subst) # << >>}}

\* chase on one match: a variable to chase gets the dependent value of the
\* stored row when the determinant is stored and a class id of its own, made
\* by this call, when it is not; no id is made beyond those bound.
ChaseBindsOrMints(db, subst, atoms) ==
    LET r == Chase(db, subst, atoms)
        minted == Len(db.uf)..(Len(r.db.uf) - 1)
    IN  /\ r.db.tables = db.tables
        /\ ~r.db.panicked
        /\ \A c \in ToChase(db, subst, atoms) :
               LET atom == c[1]
                   t == db.tables[atom.table]
                   got == XTableGet(t, SlotsWithSubst(XDetOf(t, atom.slots), subst)[1])
               IN  (c[3] \notin DOMAIN subst
                        /\ db.schemas[atom.table].dependent[c[2]] = "EClassId") =>
                       IF got # << >> THEN r.subst[c[3]] = got[1][c[2]]
                       ELSE /\ r.subst[c[3]] \in minted
                            /\ \A v \in DOMAIN r.subst :
                                   r.subst[v] = r.subst[c[3]] /\ v \notin DOMAIN subst
                                       => v = c[3]
        /\ \A id \in minted : \E v \in DOMAIN r.subst \ DOMAIN subst : r.subst[v] = id
        /\ \A v \in DOMAIN subst : r.subst[v] = subst[v]

\* Between the rounds of fixpoint, chase binds or mints on every match of
\* every rule.
ChaseOnEveryMatch ==
    (xlStatus \in {"running", "done"}) =>
        \A i \in 1..Len(XlProgram(xlProg)) : \A subst \in MatchesOf(xlDb, i) :
            ChaseBindsOrMints(xlDb, subst, XlProgram(xlProg)[i].action)

\* A rule that fired on a match in one round and fires on the same match in
\* the next mints no class id the second time.
RefiringMintsNothing ==
    (xlStatus = "running" /\ xlStatus' \in {"running", "done"}) =>
        \A i \in 1..Len(XlProgram(xlProg)) :
            \A subst \in MatchesOf(xlDb, i) \cap MatchesOf(xlDb', i) :
                Len(Chase(xlDb', subst, XlProgram(xlProg)[i].action).db.uf) = Len(xlDb'.uf)

\* The asserts of tests::simple_chase.
ChaseProgramCounts ==
    (xlStatus = "done" /\ xlProg = <<"chase">>) =>
        /\ XRowCount(xlDb, 1) = 2
        /\ XRowCount(xlDb, 2) = 4

\* C30: chase binds an unbound variable in a dependent class-id column to the
\* dependent value of the stored row when a row with the atom's fully bound
\* determinant is stored and otherwise mints exactly one fresh class id;
\* re-firing the same rule on the same match in later rounds mints no further
\* id; the commutative-adder program ends with 2 Constant rows and 4 Add rows.
C30_ChaseBindsOrMintsOnce ==
    /\ [](ChaseOnEveryMatch /\ ChaseProgramCounts)
    /\ [][RefiringMintsNothing]_vars

\* fixpoint returned on the commutative-adder program: six class ids were
\* minted, and the rule with the unbound z still matches.
C30_Witness ==
    /\ xlStatus = "done"
    /\ xlProg = <<"chase">>
    /\ Len(xlDb.uf) = 6
    /\ \E subst \in MatchesOf(xlDb, 4) :
           /\ ToChase(xlDb, subst, XlProgram(xlProg)[4].action) # {}
           /\ 2 \notin DOMAIN subst

\* One live row id of its table for each atom of a query.
RowChoices(db, atoms) ==
    {ch \in [1..Len(atoms) ->
                UNION {0..(NumRows(db.tables[atoms[k].table]) - 1) : k \in 1..Len(atoms)}] :
        \A k \in 1..Len(atoms) :
            /\ ch[k] < NumRows(db.tables[atoms[k].table])
            /\ ch[k] \notin db.tables[atoms[k].table].deleted_rows}

\* The slots <<k, i>> of a query that hold a variable.
VariableSlots(atoms) ==
    {s \in UNION {{<<k, i>> : i \in 1..Len(atoms[k].slots)} : k \in 1..Len(atoms)} :
        atoms[s[1]].slots[s[2]][1] = "Variable"}

\* The value a choice of rows puts at slot <<k, i>>.
ValueAt(db, atoms, ch, s) == GetRow(db.tables[atoms[s[1]].table], ch[s[1]])[s[2]]

\* The rows chosen agree with every Concrete slot and give every variable
\* one value at all its occurrences.
ChoiceMatches(db, atoms, ch) ==
    /\ \A k \in 1..Len(atoms) : \A i \in 1..Len(atoms[k].slots) :
           atoms[k].slots[i][1] = "Concrete" =>
               ValueAt(db, atoms, ch, <<k, i>>) = atoms[k].slots[i][2]
    /\ \A s \in VariableSlots(atoms) : \A r \in VariableSlots(atoms) :
           atoms[s[1]].slots[s[2]][2] = atoms[r[1]].slots[r[2]][2] =>
               ValueAt(db, atoms, ch, s) = ValueAt(db, atoms, ch, r)

\* The substitution of a matching choice: each variable of the query with the
\* value at one of its occurrences, nothing for a Wildcard.
SubstOf(db, atoms, ch) ==
    [sym \in {atoms[s[1]].slots[s[2]][2] : s \in VariableSlots(atoms)} |->
        ValueAt(db, atoms, ch,
                CHOOSE s \in VariableSlots(atoms) : atoms[s[1]].slots[s[2]][2] = sym)]

\* Queries beyond those of the rules: a variable twice in one atom, a cycle
\* of two atoms, wildcards on both sides of a join, a constant with a variable.
ProbeQueries(prog) ==
    IF prog[1] = "graph"
    THEN {<<[table |-> 1, slots |-> <<XVar(0), XVar(0)>>]>>,
          <<[table |-> 2, slots |-> <<XVar(0), XVar(1)>>],
            [table |-> 2, slots |-> <<XVar(1), XVar(0)>>]>>,
          <<[table |-> 1, slots |-> <<<<"Wildcard">>, XVar(1)>>],
            [table |-> 1, slots |-> <<XVar(1), <<"Wildcard">>>>]>>,
          <<[table |-> 2, slots |-> <<XNum(0), XVar(0)>>]>>}
    ELSE {<<[table |-> 2, slots |-> <<XVar(0), XVar(0), XVar(2)>>]>>,
          <<[table |-> 1, slots |-> <<<<"Wildcard">>, XVar(0)>>],
            [table |-> 2, slots |-> <<XVar(0), <<"Wildcard">>, XVar(1)>>]>>,
          <<[table |-> 2, slots |-> <<<<"Wildcard">>, <<"Wildcard">>, <<"Wildcard">>>>]>>}

QueriesOf(prog) ==
    {XlProgram(prog)[i].query : i \in 1..Len(XlProgram(prog))} \cup ProbeQueries(prog)

\* dumb_product_query returns one substitution for each matching choice of
\* live rows, and no other.
QueryIsProduct(db, atoms) ==
    LET matched == DumbProductQuery(db, atoms)
        matching == {ch \in RowChoices(db, atoms) : ChoiceMatches(db, atoms, ch)}
    IN  /\ {matched[n] : n \in 1..Len(matched)} = {SubstOf(db, atoms, ch) : ch \in matching}
        /\ Len(matched) = Cardinality(matching)

\* The database and the query of tests::simple_query.
SimpleQueryDb ==
    [tables |-> <<XTableInsert(XTableInsert(XTableInsert(XTableNew(1),
                                  <<0, 1, 4>>).t, <<1, 1, 3>>).t, <<3, 3, 2>>).t,
                  XTableInsert(XTableInsert(XTableInsert(XTableInsert(XTableNew(1),
                                  <<4, 0>>).t, <<2, 3>>).t, <<0, 0>>).t, <<5, 1>>).t>>,
     schemas |-> << >>, uf |-> UFNew, panicked |-> FALSE]

SimpleQuery ==
    <<[table |-> 1, slots |-> <<XVar(1), XNum(1), <<"Wildcard">>>>],
      [table |-> 2, slots |-> <<XVar(2), XVar(1)>>]>>

\* C31: dumb_product_query returns exactly the substitutions of the choices of
\* one live row per atom that agree with every Concrete slot and bind every
\* variable to one value at all its occurrences; a Wildcard binds nothing, a
\* deleted row is never matched, and the empty query yields the single empty
\* substitution.
C31_QueryIsProductOfLiveRows ==
    /\ xlStatus \in {"running", "done"} =>
           \A atoms \in QueriesOf(xlProg) : QueryIsProduct(xlDb, atoms)
    /\ DumbProductQuery(xlDb, << >>) = << << >> >>
    /\ DumbProductQuery(SimpleQueryDb, SimpleQuery)
           = <<(1 :> 0) @@ (2 :> 4), (1 :> 0) @@ (2 :> 0), (1 :> 1) @@ (2 :> 5)>>

\* A database with a deleted row in a table that a query with a join and a
\* wildcard matches.
C31_Witness ==
    /\ xlStatus = "done"
    /\ xlDb.tables[2].deleted_rows # {}
    /\ \E atoms \in QueriesOf(xlProg) :
           /\ Len(atoms) = 2
           /\ \E k \in 1..2 : \E i \in 1..Len(atoms[k].slots) : atoms[k].slots[i][1] = "Wildcard"
           /\ Len(DumbProductQuery(xlDb, atoms)) >= 2

-----------------------------------------------------------------------------
(* The Corebuild specification: an e-graph over up to CbMaxIds class ids,   *)
(* driven by makeset, insert, merge, rebuild and corebuild.  A corebuild    *)
(* that never returns sets egHung and nothing follows it.                   *)

CbMaxIds == 3
CbMaxRows == 3
CbMaxLeft == 0

\* The nodes a client inserts: those of ENodeRows whose Add nodes have a left
\* operand up to CbMaxLeft.
CbNodeRows(sig) == {row \in ENodeRows(sig) : sig = SigAdd => row[1] <= CbMaxLeft}

CbRowsFit(e) == TotalRows(e, DOMAIN e.tables) <= CbMaxRows

InitCorebuild ==
    /\ IdleEGraph
    /\ IdleUF
    /\ IdleTable
    /\ IdleESSA
    /\ IdleLattice
    /\ IdleDomain
    /\ IdleAI
    /\ IdleMerge
    /\ IdleXlog

CbMakeset ==
    /\ ~egHung
    /\ Len(eg.uf) < CbMaxIds
    /\ \E r \in {Makeset(eg.uf)} : eg' = [eg EXCEPT !.uf = r.uf]
    /\ egOp' = "makeset"
    /\ egRet' = 0
    /\ egHung' = FALSE
    /\ UNCHANGED <<egNode, egRoot, egHit, egPrev>>
    /\ UNCHANGED <<ufVars, tblVars, aiVars, mgVars, latVars, domVars, esVars, xlVars>>

CbInsert ==
    /\ ~egHung
    /\ \E sig \in Signatures : \E row \in CbNodeRows(sig) :
           \E r \in {EGraphInsert(eg, sig, row)} :
               /\ CbRowsFit(r.e)
               /\ eg' = r.e
    /\ egOp' = "insert"
    /\ egRet' = 0
    /\ egHung' = FALSE
    /\ UNCHANGED <<egNode, egRoot, egHit, egPrev>>
    /\ UNCHANGED <<ufVars, tblVars, aiVars, mgVars, latVars, domVars, esVars, xlVars>>

CbMerge ==
    /\ ~egHung
    /\ \E a \in Ids(eg.uf), b \in Ids(eg.uf) :
           \E r \in {Merge(eg.uf, a, b)} : eg' = [eg EXCEPT !.uf = r.uf]
    /\ egOp' = "merge"
    /\ egRet' = 0
    /\ egHung' = FALSE
    /\ UNCHANGED <<egNode, egRoot, egHit, egPrev>>
    /\ UNCHANGED <<ufVars, tblVars, aiVars, mgVars, latVars, domVars, esVars, xlVars>>

CbRebuild ==
    /\ ~egHung
    /\ \E order \in TableOrders(eg) :
           \E r \in {EGraphRebuild(eg, order)} :
               /\ CbRowsFit(r.e)
               /\ eg' = r.e
    /\ egOp' = "rebuild"
    /\ egRet' = 0
    /\ egHung' = FALSE
    /\ UNCHANGED <<egNode, egRoot, egHit, egPrev>>
    /\ UNCHANGED <<ufVars, tblVars, aiVars, mgVars, latVars, domVars, esVars, xlVars>>

CbCorebuild ==
    /\ ~egHung
    /\ \E order \in TableOrders(eg), rev \in BOOLEAN :
           \E r \in {EGraphCorebuild(eg, order, rev)} :
               /\ eg' = r.e
               /\ egRet' = r.changed
               /\ egHung' = r.hang
    /\ egOp' = "corebuild"
    /\ UNCHANGED <<egNode, egRoot, egHit, egPrev>>
    /\ UNCHANGED <<ufVars, tblVars, aiVars, mgVars, latVars, domVars, esVars, xlVars>>

NextCorebuild == CbMakeset \/ CbInsert \/ CbMerge \/ CbRebuild \/ CbCorebuild

SpecCorebuild == InitCorebuild /\ [][NextCorebuild]_vars

\* C32: corebuild terminates on every e-graph state reachable by makeset,
\* insert, merge and rebuild: the loop that rebuilds next from last finds
\* next == last and exits, so no call of corebuild is left without a return.
C32_CorebuildTerminates == egOp = "corebuild" => ~egHung

\* A partition of the class ids as the set of pairs of equivalent ids: the
\* smallest equivalence over ids that contains pairs.
RECURSIVE Transitive(_)
Transitive(rel) ==
    LET next == rel \cup {<<x[1][1], x[2][2]>> : x \in {y \in rel \X rel : y[1][2] = y[2][1]}}
    IN  IF next = rel THEN rel ELSE Transitive(next)

EquivClosure(ids, pairs) ==
    Transitive(pairs \cup {<<x[2], x[1]>> : x \in pairs} \cup {<<i, i>> : i \in ids})

\* The partition a union-find holds, read off its parent graph.
PartitionOf(u) == {x \in Ids(u) \X Ids(u) : SameClass(u, x[1], x[2])}

\* A determinant with its class-id columns replaced by the least id of their
\* class in the partition part.
DetThrough(part, sig, det) ==
    [c \in 1..Len(det) |->
        IF sig.class_id_mask[c] = 0 THEN det[c]
        ELSE SetMin({y \in 0..det[c] : <<det[c], y>> \in part})]

\* The pairs of roots of live rows of one table whose determinants coincide
\* through part.
LinkedRoots(e, part) ==
    UNION {{<<EDep(sig, e.tables[sig].rows[i + 1])[1], EDep(sig, e.tables[sig].rows[j + 1])[1]>> :
               <<i, j>> \in {x \in ELive(e.tables[sig]) \X ELive(e.tables[sig]) :
                   DetThrough(part, sig, EDet(sig, e.tables[sig].rows[x[1] + 1]))
                     = DetThrough(part, sig, EDet(sig, e.tables[sig].rows[x[2] + 1]))}} :
           sig \in DOMAIN e.tables}

\* The refinement from part down to the coarsest partition that its own
\* linked roots generate.
RECURSIVE RefineFrom(_, _)
RefineFrom(e, part) ==
    LET next == EquivClosure(Ids(e.uf), LinkedRoots(e, part))
    IN  IF next = part THEN part ELSE RefineFrom(e, next)

CoarsestCongruence(e) == RefineFrom(e, Ids(e.uf) \X Ids(e.uf))

\* A corebuild that returns leaves the tables as they were and the main
\* union-find holding the join of its partition with the coarsest congruence.
CorebuildJoins ==
    (egOp' = "corebuild" /\ ~egHung') =>
        /\ eg'.tables = eg.tables
        /\ Len(eg'.uf) = Len(eg.uf)
        /\ PartitionOf(eg'.uf)
             = EquivClosure(Ids(eg.uf), PartitionOf(eg.uf) \cup CoarsestCongruence(eg))
        /\ egRet' = (PartitionOf(eg'.uf) # PartitionOf(eg.uf))

\* C33: a corebuild that returns has computed, by refinement from the all-equal
\* partition, the coarsest partition P in which ids are equivalent only when
\* linked by roots of rows of one table whose determinants coincide through P;
\* the main union-find's partition is then its previous partition joined with
\* P, nothing else is merged, and no table row is modified.
C33_CorebuildJoinsCoarsestCongruence == [][CorebuildJoins]_vars

\* A corebuild has returned with a change where the congruence relates two
\* different ids and the main union-find relates more than the congruence does.
C33_Witness ==
    /\ egOp = "corebuild"
    /\ ~egHung
    /\ egRet = TRUE
    /\ Len(eg.uf) = CbMaxIds
    /\ \E x \in CoarsestCongruence(eg) : x[1] # x[2]
    /\ CoarsestCongruence(eg) # Ids(eg.uf) \X Ids(eg.uf)
    /\ PartitionOf(eg.uf) # CoarsestCongruence(eg)

\* The live rows of the Phi table of a graph.
PhiRows(graph) ==
    {TableOf(graph, SigPhi).rows[i + 1] : i \in ELive(TableOf(graph, SigPhi))}

\* What join at MergeSite did for var, bound to l on the left and r on the
\* right, given the class c the result binds it to.
JoinedAt(l, r, c) ==
    IF l = r
    THEN /\ c = l
         /\ \A row \in PhiRows(mgGraph) : EDet(SigPhi, row) # <<MergeSite, l, r>>
    ELSE /\ \E row \in PhiRows(mgGraph) :
                /\ EDet(SigPhi, row) = <<MergeSite, l, r>>
                /\ SameClass(mgGraph.uf, EDep(SigPhi, row)[1], c)
         /\ c \in DOMAIN mgOut.ad
         /\ mgOut.ad[c] = IntervalJoin(Lookup("interval", mgSelf.ad, l),
                                       Lookup("interval", mgOther.ad, r))

\* C34: ESSADomain::join at a site: a variable bound to one class on both sides
\* keeps it and no Phi is interned for it; a variable bound to different
\* classes l and r is rebound to the class of an interned Phi(site, l, r, .)
\* row, and the joined inner state holds for that class the join of the left
\* state's value for l and the right state's value for r.
C34_JoinInternsPhi ==
    (mgOp = "join" /\ mgKind = "essa") =>
        \A var \in DOMAIN mgOut.var_to_val :
            JoinedAt(mgSelf.var_to_val[var], mgOther.var_to_val[var], mgOut.var_to_val[var])

\* A join of states that agree on one variable and bind two others to the
\* same pair of different classes: one Phi row serves both.
C34_Witness ==
    /\ mgOp = "join"
    /\ mgKind = "essa"
    /\ \E v \in DOMAIN mgOut.var_to_val : mgSelf.var_to_val[v] = mgOther.var_to_val[v]
    /\ \E v \in DOMAIN mgOut.var_to_val, w \in DOMAIN mgOut.var_to_val :
           /\ v # w
           /\ mgSelf.var_to_val[v] # mgOther.var_to_val[v]
           /\ mgOut.var_to_val[v] = mgOut.var_to_val[w]
    /\ Cardinality(PhiRows(mgGraph)) = 1

\* C35: when the interpreter has finished a function the static-phi table
\* holds no entry for any site: the entry of each while loop was removed
\* before the interpreter moved past the loop, however the loop was left.
C35_StaticPhisEmptyWhenDone ==
    esPc[1] = "done" => DOMAIN esStaticPhis = {}

-----------------------------------------------------------------------------
(* The Canonicalize specification: UnderstandsEquality::canonicalize called  *)
(* on a LatticeDomain keyed by class ids, with a union-find over CnIds ids.  *)

CnIds == 3
CnMaxInt == 1
CnMaxPasses == 6

\* meet of the lattice of a LatticeDomain.
ValueMeet(dom, a, b) == IF dom = "interval" THEN IntervalMeet(a, b) ELSE ConcreteMeet(a, b)

\* A slip in merge: when both ids are bound only a takes the meet.
LatticeDomainMergeOneSide(dom, ad, a, b) ==
    IF a \notin DOMAIN ad /\ b \notin DOMAIN ad
    THEN [ad |-> ad, val |-> LatticeBottom(dom), changed |-> FALSE]
    ELSE IF a \notin DOMAIN ad
    THEN [ad |-> Assign(ad, a, ad[b]), val |-> ad[b], changed |-> TRUE]
    ELSE IF b \notin DOMAIN ad
    THEN [ad |-> Assign(ad, b, ad[a]), val |-> ad[a], changed |-> TRUE]
    ELSE CHOOSE out \in
             {[ad |-> Assign(ad, a, new_val), val |-> new_val,
               changed |-> new_val # ad[a]] :
                  new_val \in {ValueMeet(dom, ad[a], ad[b])}} : TRUE

\* LatticeDomain::merge of UnderstandsEquality, the changed flag included.
LatticeDomainMerge(dom, ad, a, b) ==
    IF a \notin DOMAIN ad /\ b \notin DOMAIN ad
    THEN [ad |-> ad, val |-> LatticeBottom(dom), changed |-> FALSE]
    ELSE IF a \notin DOMAIN ad
    THEN [ad |-> Assign(ad, a, ad[b]), val |-> ad[b], changed |-> TRUE]
    ELSE IF b \notin DOMAIN ad
    THEN [ad |-> Assign(ad, b, ad[a]), val |-> ad[a], changed |-> TRUE]
    ELSE CHOOSE out \in
             {[ad |-> Assign(Assign(ad, a, new_val), b, new_val), val |-> new_val,
               changed |-> new_val # ad[a] \/ new_val # ad[b]] :
                  new_val \in {ValueMeet(dom, ad[a], ad[b])}} : TRUE

\* canonicalize, the for loop over the ids collected from dom().
RECURSIVE CanonicalizeIds(_, _, _, _, _)
CanonicalizeIds(dom, ad, u, ids, changed) ==
    IF ids = << >> THEN [ad |-> ad, uf |-> u, changed |-> changed]
    ELSE CHOOSE out \in
             {IF Head(ids) = canon.id
              THEN CanonicalizeIds(dom, ad, canon.uf, Tail(ids), changed)
              ELSE CHOOSE merged \in
                       {CanonicalizeIds(dom, m.ad, canon.uf, Tail(ids), m.changed \/ changed) :
                            m \in {LatticeDomainMerge(dom, ad, Head(ids), canon.id)}} : TRUE :
                  canon \in {Find(u, Head(ids))}} : TRUE

\* UnderstandsEquality::canonicalize: passes repeat until one changes nothing;
\* a call still changing after CnMaxPasses passes is reported as hang.
RECURSIVE DomainCanonicalize(_, _, _, _)
DomainCanonicalize(dom, ad, u, passes) ==
    CHOOSE out \in
        {IF ~pass.changed
         THEN [ad |-> pass.ad, uf |-> pass.uf, passes |-> passes + 1, hang |-> FALSE]
         ELSE IF passes + 1 >= CnMaxPasses
         THEN [ad |-> pass.ad, uf |-> pass.uf, passes |-> passes + 1, hang |-> TRUE]
         ELSE DomainCanonicalize(dom, pass.ad, pass.uf, passes + 1) :
             pass \in {CanonicalizeIds(dom, ad, u, BTreeIter(ad), FALSE)}} : TRUE

\* The union-finds over CnIds ids that makeset and merge build: each parent is
\* at most its id.
CnUnionFinds == {u \in [1..CnIds -> 0..(CnIds - 1)] : \A x \in 1..CnIds : u[x] <= x - 1}

\* The values the map holds: for Interval top, bottom and every pair of
\* endpoints, inverted ones included, which Interval arithmetic produces from
\* top.
CnValues(dom) ==
    IF dom = "interval"
    THEN {IntervalTop, IntervalBottom} \cup {IntervalOf(l, h) : l \in 0..CnMaxInt, h \in 0..CnMaxInt}
    ELSE {ConcreteBottom, ConcreteTop} \cup {ConcreteValue(v) : v \in 0..CnMaxInt}

CnMaps(dom) == UNION {[keys -> CnValues(dom)] : keys \in SUBSET (0..(CnIds - 1))}

InitCanonicalize ==
    /\ domKind \in {"interval", "concrete"}
    /\ domOp = "new"
    /\ domAd \in CnMaps(domKind)
    /\ domArg = << >>
    /\ domOut = << >>
    /\ uf \in CnUnionFinds
    /\ ufOp = "new"
    /\ ufArgs = << >>
    /\ ufRet = 0
    /\ ufPrev = << >>
    /\ IdleTable
    /\ IdleESSA
    /\ IdleEGraph
    /\ IdleAI
    /\ IdleMerge
    /\ IdleXlog
    /\ IdleLattice

\* canonicalize(uf); domArg keeps the map and the union-find of before the call.
CnCanonicalize ==
    /\ domOp = "new"
    /\ \E r \in {DomainCanonicalize(domKind, domAd, uf, 0)} :
           /\ domAd' = r.ad
           /\ uf' = r.uf
           /\ domOut' = [passes |-> r.passes, hang |-> r.hang]
    /\ domArg' = <<domAd, uf>>
    /\ domOp' = "canonicalize"
    /\ UNCHANGED <<domKind, ufOp, ufArgs, ufRet, ufPrev>>
    /\ UNCHANGED <<tblVars, egVars, aiVars, mgVars, latVars, esVars, xlVars>>

NextCanonicalize == CnCanonicalize

SpecCanonicalize == InitCanonicalize /\ [][NextCanonicalize]_vars

\* The meet of a set of values, folded from bottom(), the neutral element of
\* meet in Interval and Concrete.
RECURSIVE MeetAll(_, _)
MeetAll(dom, vals) ==
    IF vals = {} THEN LatticeBottom(dom)
    ELSE LET v == CHOOSE x \in vals : TRUE
         IN  ValueMeet(dom, v, MeetAll(dom, vals \ {v}))

\* The values the map of before the call held for the ids of the class of id.
ClassValues(id) == {domArg[1][j] : j \in DOMAIN domArg[1] \cap ClassOf(domArg[2], id)}

\* C36: LatticeDomain::canonicalize(uf) terminates, and afterwards every class
\* id in the map that is not its own representative holds the value of its
\* representative, which is in the map too, that value being the meet of the
\* values the map entries of the class held before.
C36_CanonicalizeSpreadsMeet ==
    domOp = "canonicalize" =>
        /\ ~domOut.hang
        /\ \A id \in DOMAIN domAd :
               RootOf(uf, id) # id =>
                   /\ RootOf(uf, id) \in DOMAIN domAd
                   /\ domAd[id] = domAd[RootOf(uf, id)]
                   /\ domAd[id] = MeetAll(domKind, ClassValues(id))

\* A call that took three passes on a class of three ids whose representative
\* was not in the map and whose other two ids held different values.
C36_Witness ==
    /\ domOp = "canonicalize"
    /\ domOut.passes >= 3
    /\ DOMAIN domArg[1] = {1, 2}
    /\ domArg[1][1] # domArg[1][2]
    /\ ClassOf(uf, 0) = {0, 1, 2}
    /\ DOMAIN domAd = {0, 1, 2}

\* A step in which the while loop of ai_stmt replaces its state by the
\* widened one and goes round again.
WhileWidened ==
    /\ aiStatus = "running"
    /\ Len(aiStack) > 0
    /\ Head(aiStack).k = "while"
    /\ Head(aiStack).phase = "body"
    /\ Len(aiStack') = Len(aiStack)
    /\ Head(aiStack').k = "while"
    /\ Head(aiStack').phase = "head"

\* The new loop-head state holds, for every variable of the previous one it
\* still binds, an upper bound of the previous value.
HeadAscends ==
    WhileWidened =>
        \A var \in DOMAIN Head(aiStack').ad \cap DOMAIN Head(aiStack).ad :
            ValueJoin(aiDom, Head(aiStack).ad[var], Head(aiStack').ad[var])
                = Head(aiStack').ad[var]

\* C37: in the fixpoint iteration of a while loop every new loop-head state
\* produced by widening contains the previous loop-head state: each variable's
\* new value is an upper bound of its previous one, so the loop-head states
\* ascend and never return to an earlier, smaller state.
C37_LoopHeadsAscend == [][HeadAscends]_vars

-----------------------------------------------------------------------------
(* The Transfer specification: Interval::forward_transfer on one binary      *)
(* operator whose operands are bound to two non-empty intervals, through     *)
(* the ExpressionAST implementation and through the Term implementation.     *)

TfMaxAbs == 2

\* The endpoints of the operand intervals and the concrete values tried.
TfInts == {I32Min, I32Max} \cup ((0 - TfMaxAbs)..TfMaxAbs)

\* The non-empty intervals over the endpoints.
TfIntervals == {IntervalOf(l, h) : <<l, h>> \in {x \in TfInts \X TfInts : x[1] <= x[2]}}

TfOps == {"Add", "Subtract", "Multiply", "Divide", "EqualsEquals", "NotEquals",
          "Less", "LessEquals", "Greater", "GreaterEquals"}

InitTransfer ==
    /\ domKind = "interval"
    /\ domOp = "new"
    /\ \E l \in TfIntervals, r \in TfIntervals : domAd = (0 :> l) @@ (1 :> r)
    /\ domArg = << >>
    /\ domOut = << >>
    /\ IdleUF
    /\ IdleTable
    /\ IdleESSA
    /\ IdleEGraph
    /\ IdleAI
    /\ IdleMerge
    /\ IdleXlog
    /\ IdleLattice

\* forward_transfer of `x op y` and of the term op(class 0, class 1, root);
\* << >> is a panic, which the two implementations share.
TfForwardTransfer ==
    /\ domOp = "new"
    /\ \E op \in TfOps :
         \E out \in {ForwardTransfer("interval", <<op, Var(0), Var(1)>>, domAd)} :
           /\ domArg' = op
           /\ domOut' = [expr |-> out,
                         term |-> IF out = << >> THEN << >>
                                  ELSE <<TermForwardTransfer("interval", <<op, 0, 1, 2>>, domAd)>>]
    /\ domOp' = "forward_transfer"
    /\ UNCHANGED <<domKind, domAd>>
    /\ UNCHANGED <<ufVars, tblVars, egVars, aiVars, mgVars, latVars, esVars, xlVars>>

NextTransfer == TfForwardTransfer

SpecTransfer == InitTransfer /\ [][NextTransfer]_vars

\* a op b on the integers, comparisons evaluating to 1 or 0; << >> where the
\* result is undefined or does not fit in i32.
ExactOp(op, a, b) ==
    LET Truth(t) == IF t THEN <<1>> ELSE <<0>>
    IN  CASE op = "Add" -> CheckedAdd(a, b)
          [] op = "Subtract" -> CheckedSub(a, b)
          [] op = "Multiply" -> CheckedMul(a, b)
          [] op = "Divide" -> CheckedDiv(a, b)
          [] op = "EqualsEquals" -> Truth(a = b)
          [] op = "NotEquals" -> Truth(a # b)
          [] op = "Less" -> Truth(a < b)
          [] op = "LessEquals" -> Truth(a <= b)
          [] op = "Greater" -> Truth(a > b)
          [] op = "GreaterEquals" -> Truth(a >= b)

\* The concrete values tried of an interval.
MembersOf(v) == {a \in TfInts : v.low <= a /\ a <= v.high}

\* The result res holds a op b for the members tried of the operands.
Contains(res, op) ==
    \A a \in MembersOf(domAd[0]), b \in MembersOf(domAd[1]) :
        ExactOp(op, a, b) # << >> =>
            (res.low <= ExactOp(op, a, b)[1] /\ ExactOp(op, a, b)[1] <= res.high)

\* Both implementations returned an interval that holds the results.
TransferSound ==
    /\ domOut.expr # << >> => Contains(domOut.expr[1], domArg)
    /\ domOut.term # << >> => Contains(domOut.term[1], domArg)

\* C38: Interval forward transfer is sound: for non-empty operand intervals L
\* and R and every operator among Add, Sub, Mul, Div (divisor not 0), ==, !=,
\* <, <=, >, >=, the result interval contains a op b for all a in L and b in
\* R whose exact result fits in i32.
C38_TransferIsSound ==
    domOp = "forward_transfer" => TransferSound


(***************************************************************************)
(* The Reach specification: imp::ai::abstract_interpret on one function    *)
(* and fixpoint on the rules it returns, a round of the loop of fixpoint a *)
(* step.  A statement is <<"Assign", loc>>, <<"Return", loc>>,             *)
(* <<"Block", loc, stmts>>, <<"IfElse", loc, true_stmt, false_stmt>> with  *)
(* false_stmt an Option, or <<"While", loc, stmt>>; the expressions are    *)
(* literals, which collect_vars and ai_stmt do not look into.  A function  *)
(* is [location, params, body]; its parameter is symbol 0 and every        *)
(* assignment assigns symbol 1.  The text of a rule is the sequence of its *)
(* tokens, white space being none.                                         *)
(***************************************************************************)

\* A block nested in a statement holds up to RcMaxInner statements, the body
\* of a function up to RcMaxBody.
RcMaxInner == 1

RcMaxBody == 2

RcSeqs(S, n) == UNION {[1..k -> S] : k \in 0..n}

RcLeaves == {<<"Assign">>, <<"Return">>}

RcInnerBlocks == {<<"Block", b>> : b \in RcSeqs(RcLeaves, RcMaxInner)}

RcStmts ==
    RcLeaves \cup RcInnerBlocks
        \cup {<<"IfElse", t, f>> : t \in RcInnerBlocks,
                                   f \in {<< >>} \cup {<<b>> : b \in RcInnerBlocks}}
        \cup {<<"While", b>> : b \in RcInnerBlocks}

RcBodies == {<<"Block", b>> : b \in RcSeqs(RcStmts, RcMaxBody)}

\* The parser of imp::grammar numbers the nodes from the counter location of
\* main: every node gets a location of its own.
RECURSIVE Locate(_, _), LocateSeq(_, _, _)
Locate(shape, next) ==
    CASE shape[1] \in {"Assign", "Return"} ->
           [stmt |-> <<shape[1], next>>, next |-> next + 1]
      [] shape[1] = "Block" ->
           CHOOSE out \in
               {[stmt |-> <<"Block", next, r.stmts>>, next |-> r.next] :
                    r \in {LocateSeq(shape[2], next + 1, << >>)}} : TRUE
      [] shape[1] = "IfElse" ->
           CHOOSE out \in
               {IF shape[3] = << >>
                THEN [stmt |-> <<"IfElse", next, t.stmt, << >> >>, next |-> t.next]
                ELSE CHOOSE done \in
                         {[stmt |-> <<"IfElse", next, t.stmt, <<f.stmt>> >>,
                           next |-> f.next] :
                              f \in {Locate(shape[3][1], t.next)}} : TRUE :
                    t \in {Locate(shape[2], next + 1)}} : TRUE
      [] shape[1] = "While" ->
           CHOOSE out \in
               {[stmt |-> <<"While", next, b.stmt>>, next |-> b.next] :
                    b \in {Locate(shape[2], next + 1)}} : TRUE

LocateSeq(shapes, next, stmts) ==
    IF shapes = << >> THEN [stmts |-> stmts, next |-> next]
    ELSE CHOOSE out \in
             {LocateSeq(Tail(shapes), r.next, Append(stmts, r.stmt)) :
                  r \in {Locate(Head(shapes), next)}} : TRUE

RcFunction(shape) == [location |-> 0, params |-> <<0>>, body |-> Locate(shape, 1).stmt]

\* StatementAST::loc
StmtLoc(stmt) == stmt[2]

\* collect_vars: the parameters, then the variable of every assignment.
RECURSIVE AssignCount(_)
AssignCount(stmt) ==
    CASE stmt[1] = "Assign" -> 1
      [] stmt[1] = "Return" -> 0
      [] stmt[1] = "Block" ->
           IF stmt[3] = << >> THEN 0
           ELSE AssignCount(Head(stmt[3])) + AssignCount(<<"Block", stmt[2], Tail(stmt[3])>>)
      [] stmt[1] = "IfElse" ->
           AssignCount(stmt[3]) + (IF stmt[4] = << >> THEN 0 ELSE AssignCount(stmt[4][1]))
      [] stmt[1] = "While" -> AssignCount(stmt[3])

CollectVars(func) == func.params \o [i \in 1..AssignCount(func.body) |-> 1]

RcTok(kind, val) == [kind |-> kind, val |-> val]

\* "Reach({} 1)" and "Reach({}, 1)" of the format strings of ai_func and
\* ai_stmt.
ReachText(loc, value) ==
    <<RcTok("id", "Reach"), RcTok("lparen", 0), RcTok("num", loc), RcTok("num", value),
      RcTok("rparen", 0)>>

ReachCommaText(loc, value) ==
    <<RcTok("id", "Reach"), RcTok("lparen", 0), RcTok("num", loc), RcTok("comma", 0),
      RcTok("num", value), RcTok("rparen", 0)>>

\* "Const({} {} 1 0)" and "Const({} {} c1 c2)"
ConstText(var, loc, c1, c2) ==
    <<RcTok("id", "Const"), RcTok("lparen", 0), RcTok("num", var), RcTok("num", loc),
      c1, c2, RcTok("rparen", 0)>>

RuleText(query, action) == query \o <<RcTok("arrow", 0)>> \o action \o <<RcTok("semi", 0)>>

\* The table ids of register_custom_table in abstract_interpret.
TableId(name) == IF name = "Reach" THEN 1 ELSE 2

CustomSchemas ==
    <<[determinant |-> <<"Int">>, dependent |-> <<"CustomLattice">>, custom |-> "Reach"],
      [determinant |-> <<"Symbol", "Int">>,
       dependent |-> <<"CustomLattice", "CustomLattice">>, custom |-> "Const"]>>

\* The surface syntax of a rule, Atom... => Atom...; with atoms Name(args...):
\* the slots of an atom up to its closing parenthesis, as an Option.
RECURSIVE ParseSlots(_, _, _)
ParseSlots(toks, i, slots) ==
    IF i > Len(toks) THEN << >>
    ELSE CASE toks[i].kind = "num" ->
                ParseSlots(toks, i + 1, Append(slots, XNum(toks[i].val)))
           [] toks[i].kind = "id" ->
                ParseSlots(toks, i + 1, Append(slots, XVar(toks[i].val)))
           [] toks[i].kind = "wildcard" ->
                ParseSlots(toks, i + 1, Append(slots, <<"Wildcard">>))
           [] toks[i].kind = "rparen" -> <<[next |-> i + 1, slots |-> slots]>>
           [] OTHER -> << >>

\* The atoms from token i up to the first token no atom begins with.
RECURSIVE ParseAtoms(_, _, _)
ParseAtoms(toks, i, atoms) ==
    IF i > Len(toks) THEN << >>
    ELSE IF toks[i].kind # "id" THEN <<[next |-> i, atoms |-> atoms]>>
    ELSE IF i + 1 > Len(toks) \/ toks[i + 1].kind # "lparen" THEN << >>
    ELSE CHOOSE out \in
             {IF r = << >> THEN << >>
              ELSE ParseAtoms(toks, r[1].next,
                              Append(atoms, [table |-> TableId(toks[i].val),
                                             slots |-> r[1].slots])) :
                  r \in {ParseSlots(toks, i + 2, << >>)}} : TRUE

\* ProgramParser::parse on the text of one rule, as a Result.
ParseRule(toks) ==
    CHOOSE out \in
        {IF q = << >> THEN << >>
         ELSE IF toks[q[1].next].kind # "arrow" THEN << >>
         ELSE CHOOSE done \in
                  {IF a = << >> THEN << >>
                   ELSE IF a[1].next # Len(toks) \/ toks[a[1].next].kind # "semi" THEN << >>
                   ELSE <<[query |-> q[1].atoms, action |-> a[1].atoms]>> :
                       a \in {ParseAtoms(toks, q[1].next + 1, << >>)}} : TRUE :
             q \in {ParseAtoms(toks, 1, << >>)}} : TRUE

\* AIContext::add_rule: the expect panics on a text that does not parse.
AddRule(ctx, rule) ==
    IF ctx.panicked THEN ctx
    ELSE CHOOSE out \in
             {IF parsed = << >> THEN [ctx EXCEPT !.panicked = TRUE]
              ELSE [ctx EXCEPT !.rules = Append(@, parsed[1])] :
                  parsed \in {ParseRule(rule)}} : TRUE

\* The loop of ai_stmt over vars for one prior location.
RECURSIVE AddConstRules(_, _, _, _, _)
AddConstRules(ctx, fvars, assigned_var, loc, stmt_loc) ==
    IF fvars = << >> THEN ctx
    ELSE IF <<Head(fvars)>> = assigned_var
    THEN AddConstRules(ctx, Tail(fvars), assigned_var, loc, stmt_loc)
    ELSE AddConstRules(
             AddRule(ctx,
                     RuleText(ReachText(loc, 1)
                                  \o ConstText(Head(fvars), loc, RcTok("id", "c1"),
                                               RcTok("id", "c2")),
                              ConstText(Head(fvars), stmt_loc, RcTok("id", "c1"),
                                        RcTok("id", "c2")))),
             Tail(fvars), assigned_var, loc, stmt_loc)

\* The loop of ai_stmt over prior_locs.
RECURSIVE AddPriorRules(_, _, _, _, _)
AddPriorRules(ctx, fvars, assigned_var, prior_locs, stmt_loc) ==
    IF prior_locs = << >> THEN ctx
    ELSE AddPriorRules(
             AddConstRules(AddRule(ctx, RuleText(ReachText(Head(prior_locs), 1),
                                                 ReachText(stmt_loc, 1))),
                           fvars, assigned_var, Head(prior_locs), stmt_loc),
             fvars, assigned_var, Tail(prior_locs), stmt_loc)

\* The loop of the While arm of ai_stmt over body_locs.
RECURSIVE AddBackRules(_, _, _)
AddBackRules(ctx, body_locs, loc) ==
    IF body_locs = << >> THEN ctx
    ELSE AddBackRules(AddRule(ctx, RuleText(ReachCommaText(Head(body_locs), 1),
                                            ReachCommaText(loc, 1))),
                      Tail(body_locs), loc)

\* AIContext::ai_stmt: [ctx, locs], ctx the rules so far and whether
\* add_rule panicked.
RECURSIVE AiStmt(_, _, _, _), AiBlock(_, _, _, _)
AiStmt(ctx, fvars, prior_locs, stmt) ==
    CHOOSE out \in
        {CASE stmt[1] = "Block" -> AiBlock(c, fvars, <<StmtLoc(stmt)>>, stmt[3])
           [] stmt[1] = "Assign" -> [ctx |-> c, locs |-> <<StmtLoc(stmt)>>]
           [] stmt[1] = "IfElse" ->
                CHOOSE branched \in
                    {IF stmt[4] = << >>
                     THEN [ctx |-> t.ctx, locs |-> Append(t.locs, StmtLoc(stmt))]
                     ELSE CHOOSE done \in
                              {[ctx |-> f.ctx, locs |-> t.locs \o f.locs] :
                                   f \in {AiStmt(t.ctx, fvars, <<StmtLoc(stmt)>>,
                                                 stmt[4][1])}} : TRUE :
                         t \in {AiStmt(c, fvars, <<StmtLoc(stmt)>>, stmt[3])}} : TRUE
           [] stmt[1] = "While" ->
                CHOOSE looped \in
                    {[ctx |-> AddBackRules(b.ctx, b.locs, StmtLoc(stmt)),
                      locs |-> <<StmtLoc(stmt)>>] :
                         b \in {AiStmt(c, fvars, <<StmtLoc(stmt)>>, stmt[3])}} : TRUE
           [] stmt[1] = "Return" -> [ctx |-> c, locs |-> << >>] :
             c \in {AddPriorRules(AddRule(ctx, RuleText(<< >>, ReachText(StmtLoc(stmt), 0))),
                                  fvars,
                                  IF stmt[1] = "Assign" THEN <<1>> ELSE << >>,
                                  prior_locs, StmtLoc(stmt))}} : TRUE

\* The Block arm of ai_stmt: the loop over stmts.
AiBlock(ctx, fvars, locs, stmts) ==
    IF stmts = << >> THEN [ctx |-> ctx, locs |-> locs]
    ELSE CHOOSE out \in
             {AiBlock(r.ctx, fvars, r.locs, Tail(stmts)) :
                  r \in {AiStmt(ctx, fvars, locs, Head(stmts))}} : TRUE

\* The two loops of ai_func over vars and over params.
RECURSIVE AddConstFacts(_, _, _, _)
AddConstFacts(ctx, syms, loc, tag) ==
    IF syms = << >> THEN ctx
    ELSE AddConstFacts(AddRule(ctx, RuleText(<< >>, ConstText(Head(syms), loc,
                                                              RcTok("num", tag),
                                                              RcTok("num", 0)))),
                       Tail(syms), loc, tag)

\* AIContext::ai_func: [rules, panicked, asserted], asserted when last_loc
\* is not empty.
RuleAiFunc(func) ==
    CHOOSE out \in
        {[rules |-> r.ctx.rules, panicked |-> r.ctx.panicked,
          asserted |-> ~r.ctx.panicked /\ r.locs # << >>] :
             r \in {AiStmt(AddConstFacts(
                               AddConstFacts(
                                   AddRule(AddRule([rules |-> << >>, panicked |-> FALSE],
                                                   RuleText(<< >>, ReachText(func.location, 0))),
                                           RuleText(<< >>, ReachText(func.location, 1))),
                                   CollectVars(func), func.location, 1),
                               func.params, func.location, 2),
                           CollectVars(func), <<func.location>>, func.body)}} : TRUE

InitReach ==
    /\ xlProg \in {RcFunction(shape) : shape \in RcBodies}
    /\ xlDb = DatabaseNew(<< >>)
    /\ xlStatus = "new"
    /\ xlLast = << >>
    /\ xlRounds = 0
    /\ IdleUF
    /\ IdleTable
    /\ IdleEGraph
    /\ IdleAI
    /\ IdleMerge
    /\ IdleLattice
    /\ IdleDomain
    /\ IdleESSA

\* main of the imp CLI up to the call of fixpoint: Database::new, then
\* abstract_interpret with its two register_custom_table calls and ai_func.
RcAbstractInterpret ==
    /\ xlStatus = "new"
    /\ xlDb' = DatabaseNew(CustomSchemas)
    /\ \E r \in {RuleAiFunc(xlProg)} :
           xlStatus' = IF r.panicked THEN "panic"
                       ELSE IF r.asserted THEN "assert"
                       ELSE "running"
    /\ UNCHANGED <<xlProg, xlLast, xlRounds>>
    /\ UNCHANGED <<ufVars, tblVars, egVars, aiVars, mgVars, latVars, domVars, esVars>>

\* One iteration of the loop of fixpoint on the rules of abstract_interpret.
RcRound ==
    /\ xlStatus = "running"
    /\ xlRounds < XlMaxRounds
    /\ \E r \in {FixpointRound(xlDb, RuleAiFunc(xlProg).rules)} :
           /\ xlDb' = r.db
           /\ xlLast' = <<r.acted, r.repaired>>
           /\ xlStatus' = IF r.db.panicked THEN "panic"
                          ELSE IF r.acted \/ r.repaired THEN "running" ELSE "done"
    /\ xlRounds' = xlRounds + 1
    /\ UNCHANGED xlProg
    /\ UNCHANGED <<ufVars, tblVars, egVars, aiVars, mgVars, latVars, domVars, esVars>>

NextReach == RcAbstractInterpret \/ RcRound

SpecReach == InitReach /\ [][NextReach]_vars

\* The locations control can arrive at in a statement that control arrives
\* at or not (entered), every condition going either way, and whether
\* control can leave the statement at its end: [reached, leaves].
RECURSIVE Flow(_, _), FlowSeq(_, _, _)
Flow(stmt, entered) ==
    LET here == IF entered THEN {StmtLoc(stmt)} ELSE {}
    IN  CASE stmt[1] = "Assign" -> [reached |-> here, leaves |-> entered]
          [] stmt[1] = "Return" -> [reached |-> here, leaves |-> FALSE]
          [] stmt[1] = "Block" -> FlowSeq(stmt[3], entered, here)
          [] stmt[1] = "IfElse" ->
               LET t == Flow(stmt[3], entered)
               IN  IF stmt[4] = << >>
                   THEN [reached |-> here \cup t.reached, leaves |-> entered]
                   ELSE LET f == Flow(stmt[4][1], entered)
                        IN  [reached |-> here \cup t.reached \cup f.reached,
                             leaves |-> t.leaves \/ f.leaves]
          [] stmt[1] = "While" ->
               [reached |-> here \cup Flow(stmt[3], entered).reached, leaves |-> entered]

FlowSeq(stmts, entered, reached) ==
    IF stmts = << >> THEN [reached |-> reached, leaves |-> entered]
    ELSE LET r == Flow(Head(stmts), entered)
         IN  FlowSeq(Tail(stmts), r.leaves, reached \cup r.reached)

\* The locations of a function with a control-flow path from its entry.
PathLocs(func) == {func.location} \cup Flow(func.body, TRUE).reached

RECURSIVE StmtLocs(_)
StmtLocs(stmt) ==
    CASE stmt[1] \in {"Assign", "Return"} -> {StmtLoc(stmt)}
      [] stmt[1] = "Block" ->
           {StmtLoc(stmt)} \cup UNION {StmtLocs(stmt[3][i]) : i \in 1..Len(stmt[3])}
      [] stmt[1] = "IfElse" ->
           {StmtLoc(stmt)} \cup StmtLocs(stmt[3])
               \cup (IF stmt[4] = << >> THEN {} ELSE StmtLocs(stmt[4][1]))
      [] stmt[1] = "While" -> {StmtLoc(stmt)} \cup StmtLocs(stmt[3])

\* Reach(loc) = 1 in a database.
MarkedReachable(db, loc) ==
    Len(db.tables) >= 1 /\ XTableGet(db.tables[1], <<loc>>) = << <<1>> >>

====
